---- MODULE Spec2Model ----
(***************************************************************************)
(* Flight-analytics aggregation of the ELBS backend                        *)
(* (src/aviation-backend/server.js): safeParseFloat, processFlightAnalytics*)
(* generateMonthlyTrend, generateEmptyMonthlyTrend and the handler of      *)
(* GET /analytics that calls them; the middleware authenticateToken, the   *)
(* handlers of POST /auth/register and POST /upload-schedule; and, of the  *)
(* frontend, AuthProvider and the hook useFlights.                         *)
(*                                                                         *)
(* JavaScript values are tagged records:                                   *)
(*   [k |-> "number", v |-> n]   a finite number, n in ticks of 1/800 hour *)
(*   [k |-> "nan"]               the number NaN (typeof 'number')          *)
(*   [k |-> "string", chars |-> <<"3", ".", "5">>]  a string, by character *)
(*   [k |-> "text", s |-> "JFK"] a string that is only compared or joined  *)
(*   [k |-> "date", y |-> 2026, m |-> 10]  a Date (month 0-based)          *)
(*   [k |-> "null"], [k |-> "undefined"]                                   *)
(* Every finite number of the model is a multiple of 1/8 hour before       *)
(* rounding, so that double arithmetic on it is exact; 1/800 hour is the   *)
(* common unit of eighths, hundredths (toFixed(2)) and tenths.             *)
(***************************************************************************)
EXTENDS Integers, Sequences, FiniteSets, TLC

VARIABLES flights, now, pc, out, prev, table, reqs, audit,
          guard, pilots, regs, session, hook, uploads

vars == <<flights, now, pc, out, prev, table, reqs, audit,
          guard, pilots, regs, session, hook, uploads>>

\* the state of the analytics, and the state of the other routes and of the
\* frontend
analyticsVars == <<flights, now, pc, out, prev, table, reqs, audit>>

webVars == <<guard, pilots, regs, session, hook, uploads>>

\* ticks per hour: the common unit of 1/8 hour and 1/100 hour
Unit == 8 * 100

Num(n) == [k |-> "number", v |-> n]
NaN == [k |-> "nan"]
Null == [k |-> "null"]
Undefined == [k |-> "undefined"]
Str(cs) == [k |-> "string", chars |-> cs]
Text(s) == [k |-> "text", s |-> s]
DateOf(y, m) == [k |-> "date", y |-> y, m |-> m]

\* hours given in eighths, as a number
Hours8(e) == Num(e * 100)

Abs(n) == IF n < 0 THEN -n ELSE n

\* typeof value
TypeOf(value) ==
  CASE value.k \in {"number", "nan"} -> "number"
    [] value.k \in {"string", "text"} -> "string"
    [] value.k = "undefined" -> "undefined"
    [] OTHER -> "object"

\* isNaN(num) for a number
IsNaN(num) == num.k = "nan"

\* a + b on numbers
Add(a, b) == IF IsNaN(a) \/ IsNaN(b) THEN NaN ELSE Num(a.v + b.v)

\* ToBoolean(value), as used by `x || d` and `if (x)`
Truthy(value) ==
  CASE value.k = "number" -> value.v # 0
    [] value.k = "nan" -> FALSE
    [] value.k = "string" -> value.chars # <<>>
    [] value.k = "text" -> value.s # ""
    [] value.k \in {"null", "undefined"} -> FALSE
    [] OTHER -> TRUE

Digits == {"0", "1", "2", "3", "4", "5", "6", "7", "8", "9"}

DigitVal(c) ==
  CASE c = "0" -> 0 [] c = "1" -> 1 [] c = "2" -> 2 [] c = "3" -> 3
    [] c = "4" -> 4 [] c = "5" -> 5 [] c = "6" -> 6 [] c = "7" -> 7
    [] c = "8" -> 8 [] c = "9" -> 9

RECURSIVE Pow10(_)
Pow10(n) == IF n = 0 THEN 1 ELSE 10 * Pow10(n - 1)

\* length of the longest prefix of cs made of digits
RECURSIVE DigitRun(_)
DigitRun(cs) ==
  IF cs # <<>> /\ Head(cs) \in Digits THEN 1 + DigitRun(Tail(cs)) ELSE 0

\* the natural number written by the digit string cs
RECURSIVE DigitsVal(_)
DigitsVal(cs) ==
  IF cs = <<>> THEN 0
  ELSE DigitsVal(SubSeq(cs, 1, Len(cs) - 1)) * 10 + DigitVal(cs[Len(cs)])

RECURSIVE TrimStart(_)
TrimStart(cs) ==
  IF cs # <<>> /\ Head(cs) = " " THEN TrimStart(Tail(cs)) ELSE cs

\* parseFloat on a string: leading blanks skipped, then the longest prefix
\* [+-] digits [. digits] | [+-] . digits ; NaN when there is none
ParseFloatChars(cs) ==
  LET t == TrimStart(cs)
      signed == t # <<>> /\ Head(t) \in {"-", "+"}
      sign == IF signed /\ Head(t) = "-" THEN -1 ELSE 1
      u == IF signed THEN Tail(t) ELSE t
      ni == DigitRun(u)
      afterInt == SubSeq(u, ni + 1, Len(u))
      dot == afterInt # <<>> /\ Head(afterInt) = "."
      nf == IF dot THEN DigitRun(Tail(afterInt)) ELSE 0
      mant == DigitsVal(SubSeq(u, 1, ni)) * Pow10(nf)
                + DigitsVal(SubSeq(u, ni + 2, ni + 1 + nf))
  IN  IF ni = 0 /\ nf = 0 THEN NaN
      ELSE Num(sign * ((mant * Unit) \div Pow10(nf)))

\* parseFloat(value): the argument is converted to a string first, and the
\* strings of null, undefined, NaN and a Date start with no digit
ParseFloat(value) ==
  CASE value.k = "string" -> ParseFloatChars(value.chars)
    [] value.k = "number" -> value
    [] OTHER -> NaN

safeParseFloat(value) ==
  IF TypeOf(value) = "number" THEN value
  ELSE LET num == ParseFloat(value)
       IN  IF IsNaN(num) THEN Num(0) ELSE num

(***************************************************************************)
(* A JavaScript Map: a sequence of [key, val] entries in insertion order.  *)
(***************************************************************************)
MapHas(map, key) == \E i \in 1..Len(map) : map[i].key = key

MapGet(map, key) == map[CHOOSE i \in 1..Len(map) : map[i].key = key].val

\* map.set(key, val): an existing key keeps its place
MapSet(map, key, val) ==
  IF MapHas(map, key)
  THEN [i \in 1..Len(map) |->
          IF map[i].key = key THEN [key |-> key, val |-> val] ELSE map[i]]
  ELSE Append(map, [key |-> key, val |-> val])

MapKeys(map) == [i \in 1..Len(map) |-> map[i].key]

MapValues(map) == [i \in 1..Len(map) |-> map[i].val]

(***************************************************************************)
(* Iteration. reduce and forEach hand the records to their callback one    *)
(* after the other, each call starting from the result of the one before.  *)
(* The operators that model them take the records in this order; they cut  *)
(* the list in two and evaluate the first half before they enter the       *)
(* second one, so that a long list needs little depth.                     *)
(***************************************************************************)
(***************************************************************************)
(* Dates. `now` is the value of new Date() during the call: [y, m] with m  *)
(* the 0-based month, as getFullYear() and getMonth() return them.         *)
(***************************************************************************)
monthNames ==
  <<"Jan", "Feb", "Mar", "Apr", "May", "Jun",
    "Jul", "Aug", "Sep", "Oct", "Nov", "Dec">>

\* new Date(year, monthIndex, 1): a month index outside 0..11 carries into
\* the year
NewDateYM(year, monthIndex) ==
  [k |-> "date", y |-> year + (monthIndex \div 12), m |-> monthIndex % 12]

\* new Date(value): a Date is copied, a string that is no date gives an
\* Invalid Date
NewDate(value) ==
  IF value.k = "date" THEN value ELSE [k |-> "invalidDate"]

\* String(n).padStart(2, '0')
PadStart2(n) == IF n < 10 THEN "0" \o ToString(n) ELSE ToString(n)

\* a variant whose key is the month alone
MonthKey_monthOnly(date) ==
  IF date.k = "invalidDate" THEN "NaN" ELSE PadStart2(date.m + 1)

\* `${date.getFullYear()}-${String(date.getMonth() + 1).padStart(2, '0')}`;
\* the getters of an Invalid Date return NaN
MonthKey(date) ==
  IF date.k = "invalidDate" THEN "NaN-NaN"
  ELSE ToString(date.y) \o "-" \o PadStart2(date.m + 1)

\* Math.round(hours * 10) / 10, on ticks: Math.round rounds half up
RoundTenth(hours) ==
  IF IsNaN(hours) THEN NaN ELSE Num(((hours.v + 40) \div 80) * 80)

\* a variant that wraps the month and keeps the year
BucketDate_i_sameYear(current, i) ==
  [k |-> "date", y |-> current.y, m |-> (current.m - i) % 12]

\* the bucket date of loop index i (5 down to 0)
BucketDate_i(current, i) == NewDateYM(current.y, current.m - i)

\* for (let i = 5; i >= 0; i--) monthlyData.set(monthKey, {...})
RECURSIVE InitMonthlyData(_, _, _)
InitMonthlyData(current, i, monthlyData) ==
  IF i < 0 THEN monthlyData
  ELSE LET date == BucketDate_i(current, i)
       IN  InitMonthlyData(current, i - 1,
             MapSet(monthlyData, MonthKey(date),
                    [month |-> monthNames[date.m + 1],
                     flights |-> 0, hours |-> Num(0)]))

\* a variant that opens a bucket for a month outside the window
TrendAddFlight_addsMissing(monthlyData, flight) ==
  IF Truthy(flight.flight_date)
  THEN LET monthKey == MonthKey(NewDate(flight.flight_date))
           existing == IF MapHas(monthlyData, monthKey)
                       THEN MapGet(monthlyData, monthKey)
                       ELSE [month |-> monthKey, flights |-> 0,
                             hours |-> Num(0)]
       IN  MapSet(monthlyData, monthKey,
             [existing EXCEPT
                !.flights = @ + 1,
                !.hours = Add(@, safeParseFloat(flight.duration_hours))])
  ELSE monthlyData

\* one step of flights.forEach in generateMonthlyTrend
TrendAddFlight(monthlyData, flight) ==
  IF Truthy(flight.flight_date)
  THEN LET monthKey == MonthKey(NewDate(flight.flight_date))
       IN  IF MapHas(monthlyData, monthKey)
           THEN LET existing == MapGet(monthlyData, monthKey)
                IN  MapSet(monthlyData, monthKey,
                      [existing EXCEPT
                         !.flights = @ + 1,
                         !.hours = Add(@, safeParseFloat(flight.duration_hours))])
           ELSE monthlyData
  ELSE monthlyData

\* flights.forEach(flight => { ... }) over monthlyData
RECURSIVE TrendForEach(_, _, _)
TrendForEach(monthlyData, fs, i) ==
  IF i > Len(fs) THEN monthlyData
  ELSE IF i = Len(fs) THEN TrendAddFlight(monthlyData, fs[i])
  ELSE LET mid == (i + Len(fs)) \div 2
           left == TrendForEach(monthlyData, SubSeq(fs, 1, mid), i)
       IN  IF left = left THEN TrendForEach(left, fs, mid + 1)
           ELSE monthlyData

generateMonthlyTrend(fs, current) ==
  LET monthlyData == TrendForEach(InitMonthlyData(current, 5, <<>>), fs, 1)
      values == MapValues(monthlyData)
  IN  [i \in 1..Len(values) |->
         [values[i] EXCEPT !.hours = RoundTenth(@)]]

generateEmptyMonthlyTrend ==
  LET names == <<"Jan", "Feb", "Mar", "Apr", "May", "Jun">>
  IN  [i \in 1..Len(names) |->
         [month |-> names[i], flights |-> 0, hours |-> Num(0)]]

(***************************************************************************)
(* Exact quotients. A division whose result is no multiple of a tick is    *)
(* kept as the reduced fraction [k |-> "ratio", n, d] of ticks (the double *)
(* the code holds is the one nearest to it).                               *)
(***************************************************************************)
RECURSIVE GCD(_, _)
GCD(a, b) == IF b = 0 THEN a ELSE GCD(b, a % b)

\* a / n for a number a and an integer n > 0
DivInt(a, n) ==
  IF IsNaN(a) THEN NaN
  ELSE LET g == GCD(Abs(a.v), n)
       IN  IF g = n THEN Num(a.v \div n)
           ELSE [k |-> "ratio", n |-> a.v \div g, d |-> n \div g]

\* (count / total) * 100 as an exact percentage: [n, d] reduced
Percent(count, total) ==
  LET g == GCD(count * 100, total)
  IN  [n |-> (count * 100) \div g, d |-> total \div g]

(***************************************************************************)
(* Doubles. Where the code returns a quotient as it is, the model keeps    *)
(* the double itself: a non-negative double below 2^14 whose last bit is   *)
(* worth 2^-70 or more is the whole number x of units of 2^-70 it holds,   *)
(* written in seven digits of base 2^14, the lowest one first. A result is *)
(* rounded to 53 significant bits, to the even neighbour on a tie, as      *)
(* IEEE 754 does.                                                          *)
(***************************************************************************)
\* the base of the digits
Limb == 128 * 128

BigZero == <<0, 0, 0, 0, 0, 0, 0>>

\* 1.0, that is 2^70 units
BigOne == <<0, 0, 0, 0, 0, 1, 0>>

\* a number below 2^28 as seven digits
BigOfSmall(v) == <<v % Limb, v \div Limb, 0, 0, 0, 0, 0>>

\* the digits i.. of x * k plus carry, for 0 <= k < 2^14
RECURSIVE BigMulFrom(_, _, _, _)
BigMulFrom(x, k, i, carry) ==
  IF i > Len(x) THEN <<>>
  ELSE LET t == x[i] * k + carry
       IN  <<t % Limb>> \o BigMulFrom(x, k, i + 1, t \div Limb)

BigMul(x, k) == BigMulFrom(x, k, 1, 0)

RECURSIVE BigAddFrom(_, _, _, _)
BigAddFrom(x, y, i, carry) ==
  IF i > Len(x) THEN <<>>
  ELSE LET t == x[i] + y[i] + carry
       IN  <<t % Limb>> \o BigAddFrom(x, y, i + 1, t \div Limb)

BigAdd(x, y) == BigAddFrom(x, y, 1, 0)

\* the digits 1..i of the quotient of (r, x[i], ..., x[1]) by n, and the
\* remainder, for 0 < n < 2^14
RECURSIVE BigDivFrom(_, _, _, _)
BigDivFrom(x, n, i, r) ==
  IF i = 0 THEN [q |-> <<>>, r |-> r]
  ELSE LET t == r * Limb + x[i]
           rest == BigDivFrom(x, n, i - 1, t % n)
       IN  [q |-> Append(rest.q, t \div n), r |-> rest.r]

\* -1, 0, 1 as x is less than, equal to, greater than y
RECURSIVE BigCmpFrom(_, _, _)
BigCmpFrom(x, y, i) ==
  IF i = 0 THEN 0
  ELSE IF x[i] > y[i] THEN 1
  ELSE IF x[i] < y[i] THEN -1
  ELSE BigCmpFrom(x, y, i - 1)

BigCmp(x, y) == BigCmpFrom(x, y, Len(x))

RECURSIVE BitLen(_)
BitLen(v) == IF v = 0 THEN 0 ELSE 1 + BitLen(v \div 2)

RECURSIVE Pow2(_)
Pow2(t) == IF t = 0 THEN 1 ELSE 2 * Pow2(t - 1)

\* the number of bits of x
RECURSIVE BigBitLenFrom(_, _)
BigBitLenFrom(x, i) ==
  IF i = 0 THEN 0
  ELSE IF x[i] # 0 THEN 14 * (i - 1) + BitLen(x[i])
  ELSE BigBitLenFrom(x, i - 1)

\* x, or x and a non-zero rest below its last bit when sticky, rounded to
\* 53 significant bits, ties to even (x has at most 81 bits)
Round53(x, sticky) ==
  LET t == BigBitLenFrom(x, Len(x)) - 53
  IN  IF t <= 0 THEN x
      ELSE LET lowpart == x[1] + x[2] * Limb
               low == lowpart % Pow2(t)
               half == Pow2(t - 1)
               odd == (x[(t \div 14) + 1] \div Pow2(t % 14)) % 2 = 1
               up == \/ low > half
                     \/ low = half /\ (sticky \/ odd)
               floor == [x EXCEPT ![1] = (lowpart - low) % Limb,
                                  ![2] = (lowpart - low) \div Limb]
           IN  IF up THEN BigAdd(floor, BigOfSmall(Pow2(t))) ELSE floor

\* a / n in doubles, for whole numbers 0 <= a < 2^14 and 0 < n < 2^14
DblDiv(a, n) ==
  LET d == BigDivFrom(BigMul(BigOne, a), n, Len(BigOne), 0)
  IN  Round53(d.q, d.r # 0)

\* x * k in doubles, for a whole number 0 <= k < 2^14
DblMul(x, k) == Round53(BigMul(x, k), FALSE)

\* a variant that leaves the factor 100 out
DblPercent_fraction(count, total) ==
  [k |-> "double", x |-> DblDiv(count, total)]

\* (count / total) * 100 as the code computes it
DblPercent(count, total) ==
  [k |-> "double", x |-> DblMul(DblDiv(count, total), 100)]

\* round half away from zero of n / d (d > 0) to an integer, as
\* Number.prototype.toFixed picks the larger candidate on a tie
RoundDiv(n, d) ==
  IF n >= 0 THEN (2 * n + d) \div (2 * d) ELSE -((2 * (-n) + d) \div (2 * d))

\* a variant that returns the string of toFixed(2) as it is (its digits
\* are written in ticks)
ToFixed2_keepsString(x) ==
  CASE x.k = "nan" -> Text("NaN")
    [] x.k = "number" -> Text(ToString(RoundDiv(x.v, 8) * 8))
    [] x.k = "ratio" -> Text(ToString(RoundDiv(x.n, 8 * x.d) * 8))

\* parseFloat(x.toFixed(2)) in ticks, for a number or a ratio of ticks
ToFixed2(x) ==
  CASE x.k = "nan" -> NaN
    [] x.k = "number" -> Num(RoundDiv(x.v, 8) * 8)
    [] x.k = "ratio" -> Num(RoundDiv(x.n, 8 * x.d) * 8)

\* a variant that rounds the quotient down to a hundredth
ToFixed2Div_truncates(a, n) ==
  IF IsNaN(a) THEN NaN ELSE Num(((a.v \div n) \div 8) * 8)

\* parseFloat((a / n).toFixed(2)) in ticks, for a number a of eighths of an
\* hour and a whole number n > 0: the quotient is a double, and toFixed
\* takes the hundredth nearest to it, the larger one of two
ToFixed2Div(a, n) ==
  IF IsNaN(a) THEN NaN
  ELSE LET eighths == Abs(a.v) \div (Unit \div 8)
           x == DblDiv(eighths, 8 * n)
           y == BigAdd(BigMul(x, 200), BigOne)
           hundredths == (y[6] + y[7] * Limb) \div 2
       IN  Num((IF a.v < 0 THEN -1 ELSE 1) * hundredths * 8)

\* a variant that cuts the percentage off after the first decimal
ToFixed1Percent_truncates(p) == (p.n * 10) \div p.d

\* parseFloat(p.toFixed(1)) of a percentage [n, d], in tenths of a percent
ToFixed1Percent(p) == RoundDiv(p.n * 10, p.d)

\* a variant that takes the nearest whole number of hours
FloorScaled_rounds(totalHours, num, den) ==
  IF IsNaN(totalHours) THEN NaN
  ELSE Num(RoundDiv(totalHours.v * num, den * Unit) * Unit)

\* Math.floor(totalHours * num / den), in whole hours
FloorScaled(totalHours, num, den) ==
  IF IsNaN(totalHours) THEN NaN
  ELSE Num(((totalHours.v * num) \div (den * Unit)) * Unit)

(***************************************************************************)
(* processFlightAnalytics                                                  *)
(***************************************************************************)
\* x || d for a code that is a string, null or undefined
OrDefault(value, d) == IF Truthy(value) THEN value.s ELSE d

RouteKey(flight) ==
  OrDefault(flight.departure_iata, "N/A") \o "-"
    \o OrDefault(flight.arrival_iata, "N/A")

\* a variant that names a missing carrier as a missing airport is named
AircraftKey_defaultsNA(flight) == OrDefault(flight.airline_iata, "N/A")

AircraftKey(flight) == OrDefault(flight.airline_iata, "Unknown")

\* a variant that adds only the durations that are numbers already
RECURSIVE ReduceHours_skipsStrings(_, _, _)
ReduceHours_skipsStrings(fs, i, sum) ==
  IF i > Len(fs) THEN sum
  ELSE IF i = Len(fs) THEN (IF TypeOf(fs[i].duration_hours) = "number"
                            THEN Add(sum, fs[i].duration_hours) ELSE sum)
  ELSE LET mid == (i + Len(fs)) \div 2
           left == ReduceHours_skipsStrings(SubSeq(fs, 1, mid), i, sum)
       IN  IF left = left THEN ReduceHours_skipsStrings(fs, mid + 1, left)
           ELSE sum

\* flights.reduce((sum, flight) => sum + safeParseFloat(...), 0)
RECURSIVE ReduceHours(_, _, _)
ReduceHours(fs, i, sum) ==
  IF i > Len(fs) THEN sum
  ELSE IF i = Len(fs) THEN Add(sum, safeParseFloat(fs[i].duration_hours))
  ELSE LET mid == (i + Len(fs)) \div 2
           left == ReduceHours(SubSeq(fs, 1, mid), i, sum)
       IN  IF left = left THEN ReduceHours(fs, mid + 1, left)
           ELSE sum

\* one step of the forEach that fills routeMap
RouteAddFlight(routeMap, flight) ==
  LET route == RouteKey(flight)
      duration == safeParseFloat(flight.duration_hours)
  IN  IF MapHas(routeMap, route)
      THEN LET existing == MapGet(routeMap, route)
           IN  MapSet(routeMap, route,
                 [frequency |-> existing.frequency + 1,
                  totalDuration |-> Add(existing.totalDuration, duration)])
      ELSE MapSet(routeMap, route,
             [frequency |-> 1, totalDuration |-> duration])

\* flights.forEach(flight => { ... }) over routeMap
RECURSIVE BuildRouteMap(_, _, _)
BuildRouteMap(routeMap, fs, i) ==
  IF i > Len(fs) THEN routeMap
  ELSE IF i = Len(fs) THEN RouteAddFlight(routeMap, fs[i])
  ELSE LET mid == (i + Len(fs)) \div 2
           left == BuildRouteMap(routeMap, SubSeq(fs, 1, mid), i)
       IN  IF left = left THEN BuildRouteMap(left, fs, mid + 1)
           ELSE routeMap

\* one step of the forEach that fills aircraftMap
AircraftAddFlight(aircraftMap, flight) ==
  LET aircraft == AircraftKey(flight)
      duration == safeParseFloat(flight.duration_hours)
  IN  IF MapHas(aircraftMap, aircraft)
      THEN LET existing == MapGet(aircraftMap, aircraft)
           IN  MapSet(aircraftMap, aircraft,
                 [count |-> existing.count + 1,
                  hours |-> Add(existing.hours, duration)])
      ELSE MapSet(aircraftMap, aircraft, [count |-> 1, hours |-> duration])

\* flights.forEach(flight => { ... }) over aircraftMap
RECURSIVE BuildAircraftMap(_, _, _)
BuildAircraftMap(aircraftMap, fs, i) ==
  IF i > Len(fs) THEN aircraftMap
  ELSE IF i = Len(fs) THEN AircraftAddFlight(aircraftMap, fs[i])
  ELSE LET mid == (i + Len(fs)) \div 2
           left == BuildAircraftMap(aircraftMap, SubSeq(fs, 1, mid), i)
       IN  IF left = left THEN BuildAircraftMap(left, fs, mid + 1)
           ELSE aircraftMap

\* arr.slice(0, n)
Slice0(arr, n) == SubSeq(arr, 1, IF Len(arr) < n THEN Len(arr) ELSE n)

Front(arr) == SubSeq(arr, 1, Len(arr) - 1)

\* a variant that also moves an element in front of its equals
RECURSIVE InsertByFrequency_unstable(_, _)
InsertByFrequency_unstable(sorted, x) ==
  IF sorted = <<>> THEN <<x>>
  ELSE LET last == sorted[Len(sorted)]
       IN  IF x.frequency - last.frequency >= 0
           THEN Append(InsertByFrequency_unstable(Front(sorted), x), last)
           ELSE Append(sorted, x)

\* Array.prototype.sort is stable: an element is moved in front of another
\* one only when the comparator b.frequency - a.frequency is positive
RECURSIVE InsertByFrequency(_, _)
InsertByFrequency(sorted, x) ==
  IF sorted = <<>> THEN <<x>>
  ELSE LET last == sorted[Len(sorted)]
       IN  IF x.frequency - last.frequency > 0
           THEN Append(InsertByFrequency(Front(sorted), x), last)
           ELSE Append(sorted, x)

RECURSIVE SortByFrequency(_)
SortByFrequency(arr) ==
  IF arr = <<>> THEN <<>>
  ELSE InsertByFrequency(SortByFrequency(Front(arr)), arr[Len(arr)])

\* a variant that also moves an element in front of its equals
RECURSIVE InsertByCount_unstable(_, _)
InsertByCount_unstable(sorted, x) ==
  IF sorted = <<>> THEN <<x>>
  ELSE LET last == sorted[Len(sorted)]
       IN  IF x.count - last.count >= 0
           THEN Append(InsertByCount_unstable(Front(sorted), x), last)
           ELSE Append(sorted, x)

\* .sort((a, b) => b.count - a.count)
RECURSIVE InsertByCount(_, _)
InsertByCount(sorted, x) ==
  IF sorted = <<>> THEN <<x>>
  ELSE LET last == sorted[Len(sorted)]
       IN  IF x.count - last.count > 0
           THEN Append(InsertByCount(Front(sorted), x), last)
           ELSE Append(sorted, x)

RECURSIVE SortByCount(_)
SortByCount(arr) ==
  IF arr = <<>> THEN <<>>
  ELSE InsertByCount(SortByCount(Front(arr)), arr[Len(arr)])

\* a variant that also moves an element in front of its equals
RECURSIVE InsertByFlights_unstable(_, _)
InsertByFlights_unstable(sorted, x) ==
  IF sorted = <<>> THEN <<x>>
  ELSE LET last == sorted[Len(sorted)]
       IN  IF x.flights - last.flights >= 0
           THEN Append(InsertByFlights_unstable(Front(sorted), x), last)
           ELSE Append(sorted, x)

\* .sort((a, b) => b.flights - a.flights)
RECURSIVE InsertByFlights(_, _)
InsertByFlights(sorted, x) ==
  IF sorted = <<>> THEN <<x>>
  ELSE LET last == sorted[Len(sorted)]
       IN  IF x.flights - last.flights > 0
           THEN Append(InsertByFlights(Front(sorted), x), last)
           ELSE Append(sorted, x)

RECURSIVE SortByFlights(_)
SortByFlights(arr) ==
  IF arr = <<>> THEN <<>>
  ELSE InsertByFlights(SortByFlights(Front(arr)), arr[Len(arr)])

\* a variant that cuts the list before it sorts it
RouteAnalysisOf_sliceFirst(routeMap) ==
  LET mapped == [i \in 1..Len(routeMap) |->
                   [route |-> routeMap[i].key,
                    frequency |-> routeMap[i].val.frequency,
                    avgDuration |->
                      DivInt(routeMap[i].val.totalDuration,
                             routeMap[i].val.frequency)]]
  IN  SortByFrequency(Slice0(mapped, 5))

\* Array.from(routeMap.entries()).map(...).sort(...).slice(0, 5)
RouteAnalysisOf(routeMap) ==
  LET mapped == [i \in 1..Len(routeMap) |->
                   [route |-> routeMap[i].key,
                    frequency |-> routeMap[i].val.frequency,
                    avgDuration |->
                      IF routeMap[i].val.frequency > 0
                      THEN DivInt(routeMap[i].val.totalDuration,
                                  routeMap[i].val.frequency)
                      ELSE Num(0)]]
  IN  Slice0(SortByFrequency(mapped), 5)

\* Array.from(aircraftMap.entries()).map(...).sort(...).slice(0, 5)
AircraftBreakdownOf(aircraftMap, totalFlights) ==
  LET mapped == [i \in 1..Len(aircraftMap) |->
                   [type |-> aircraftMap[i].key,
                    count |-> aircraftMap[i].val.count,
                    hours |-> aircraftMap[i].val.hours,
                    percentage |->
                      IF totalFlights > 0
                      THEN DblPercent(aircraftMap[i].val.count, totalFlights)
                      ELSE [k |-> "double", x |-> BigZero]]]
  IN  Slice0(SortByCount(mapped), 5)

\* the values Math.random() returns in turn: 0, 1/4, 1/2, 3/4 and the
\* largest one, 1 - 2^-52
RandomDraws ==
  <<BigZero,
    <<0, 0, 0, 0, Limb \div 4, 0, 0>>,
    <<0, 0, 0, 0, Limb \div 2, 0, 0>>,
    <<0, 0, 0, 0, 3 * (Limb \div 4), 0, 0>>,
    <<0, Limb - 16, Limb - 1, Limb - 1, Limb - 1, 0, 0>>>>

\* 85 + Math.random() * 15 as the code computes it, for each of the draws
ReliabilityOfDraw ==
  [i \in 1..Len(RandomDraws) |->
     [k |-> "double",
      x |-> Round53(BigAdd(BigMul(BigOne, 85), DblMul(RandomDraws[i], 15)),
                    FALSE)]]

\* the reliability of the call-th draw of a generator started at seed
Reliability(seed, call) ==
  ReliabilityOfDraw[((seed + call) % Len(RandomDraws)) + 1]

\* a variant that sorts the carriers by their reliability: the records
\* are sorted on its whole part and put back in shape
AirlineAnalysisOf_sortsByReliability(aircraftMap, seed) ==
  LET keyed == [i \in 1..Len(aircraftMap) |->
                  [airline |-> aircraftMap[i].key,
                   flights |-> Reliability(seed, i - 1).x[6],
                   count |-> aircraftMap[i].val.count,
                   reliability |-> Reliability(seed, i - 1)]]
      sorted == Slice0(SortByFlights(keyed), 5)
  IN  [i \in 1..Len(sorted) |->
         [airline |-> sorted[i].airline,
          flights |-> sorted[i].count,
          reliability |-> sorted[i].reliability]]

\* one draw per map entry, in entry order, before the sort
AirlineAnalysisOf(aircraftMap, seed) ==
  LET mapped == [i \in 1..Len(aircraftMap) |->
                   [airline |-> aircraftMap[i].key,
                    flights |-> aircraftMap[i].val.count,
                    reliability |-> Reliability(seed, i - 1)]]
  IN  Slice0(SortByFlights(mapped), 5)

\* a variant that takes a record without a status for a scheduled one
StatusCount_defaultsScheduled(fs, status) ==
  Cardinality({i \in 1..Len(fs) :
                 \/ fs[i].flight_status.k = "text" /\ fs[i].flight_status.s = status
                 \/ ~Truthy(fs[i].flight_status) /\ status = "scheduled"})

\* a variant that compares the status whatever its letter case
StatusCount_ignoresCase(fs, status) ==
  Cardinality({i \in 1..Len(fs) :
                 /\ fs[i].flight_status.k = "text"
                 /\ \/ fs[i].flight_status.s = status
                    \/ fs[i].flight_status.s = "Completed" /\ status = "completed"})

\* flights.filter(f => f.flight_status === status).length
StatusCount(fs, status) ==
  Cardinality({i \in 1..Len(fs) :
                 fs[i].flight_status.k = "text" /\ fs[i].flight_status.s = status})

\* routeAnalysis[0]?.route || 'N/A'
FirstOr(arr, field, d) ==
  IF arr # <<>> /\ arr[1][field] # "" THEN arr[1][field] ELSE d

\* !flights || flights.length === 0
IsEmptyInput(input) == input.k # "array" \/ Len(input.items) = 0

\* a variant that names the placeholder carrier of the grouping
EmptySummary_unknownAircraft ==
  [totalFlights |-> 0,
   totalHours |-> Num(0),
   averageFlightTime |-> Num(0),
   mostFrequentRoute |-> "N/A",
   mostUsedAircraft |-> "Unknown",
   onTimePercentage |-> 0,
   monthlyTrend |-> generateEmptyMonthlyTrend,
   aircraftBreakdown |-> <<>>,
   routeAnalysis |-> <<>>,
   statusDistribution |->
     [scheduled |-> 0, active |-> 0, completed |-> 0, cancelled |-> 0],
   timeDistribution |->
     [day |-> Num(0), night |-> Num(0), ifr |-> Num(0),
      crossCountry |-> Num(0)],
   airlineAnalysis |-> <<>>]

\* the summary returned for an empty input
EmptySummary ==
  [totalFlights |-> 0,
   totalHours |-> Num(0),
   averageFlightTime |-> Num(0),
   mostFrequentRoute |-> "N/A",
   mostUsedAircraft |-> "N/A",
   onTimePercentage |-> 0,
   monthlyTrend |-> generateEmptyMonthlyTrend,
   aircraftBreakdown |-> <<>>,
   routeAnalysis |-> <<>>,
   statusDistribution |->
     [scheduled |-> 0, active |-> 0, completed |-> 0, cancelled |-> 0],
   timeDistribution |->
     [day |-> Num(0), night |-> Num(0), ifr |-> Num(0),
      crossCountry |-> Num(0)],
   airlineAnalysis |-> <<>>]

\* a variant that counts only the records that carry a date
TotalFlightsOf_countsDated(fs) ==
  Cardinality({i \in 1..Len(fs) : Truthy(fs[i].flight_date)})

\* const totalFlights = flights.length
TotalFlightsOf(fs) == Len(fs)

processFlightAnalytics(input, current, seed) ==
  IF IsEmptyInput(input) THEN EmptySummary
  ELSE
    LET fs == input.items
        totalFlights == TotalFlightsOf(fs)
        totalHours == ReduceHours(fs, 1, Num(0))
        averageFlightTime ==
          IF totalFlights > 0 THEN ToFixed2Div(totalHours, totalFlights)
          ELSE Num(0)
        routeMap == BuildRouteMap(<<>>, fs, 1)
        routeAnalysis == RouteAnalysisOf(routeMap)
        aircraftMap == BuildAircraftMap(<<>>, fs, 1)
        aircraftBreakdown == AircraftBreakdownOf(aircraftMap, totalFlights)
        statusDistribution ==
          [scheduled |-> StatusCount(fs, "scheduled"),
           active |-> StatusCount(fs, "active"),
           completed |-> StatusCount(fs, "completed"),
           cancelled |-> StatusCount(fs, "cancelled")]
        onTimePercentage ==
          IF totalFlights > 0
          THEN Percent(statusDistribution.completed + statusDistribution.active,
                       totalFlights)
          ELSE Percent(0, 1)
    IN  [totalFlights |-> totalFlights,
         totalHours |-> ToFixed2(totalHours),
         averageFlightTime |-> averageFlightTime,
         mostFrequentRoute |-> FirstOr(routeAnalysis, "route", "N/A"),
         mostUsedAircraft |-> FirstOr(aircraftBreakdown, "type", "N/A"),
         onTimePercentage |-> ToFixed1Percent(onTimePercentage),
         monthlyTrend |-> generateMonthlyTrend(fs, current),
         aircraftBreakdown |-> aircraftBreakdown,
         routeAnalysis |-> routeAnalysis,
         statusDistribution |-> statusDistribution,
         timeDistribution |->
           [day |-> FloorScaled(totalHours, 3, 4),
            night |-> FloorScaled(totalHours, 1, 4),
            ifr |-> FloorScaled(totalHours, 2, 5),
            crossCountry |-> FloorScaled(totalHours, 3, 5)],
         airlineAnalysis |-> AirlineAnalysisOf(aircraftMap, seed)]

(***************************************************************************)
(* Inputs                                                                  *)
(***************************************************************************)
Arr(items) == [k |-> "array", items |-> items]

Flight(dep, arr, airline, duration, date, status) ==
  [departure_iata |-> dep, arrival_iata |-> arr, airline_iata |-> airline,
   duration_hours |-> duration, flight_date |-> date, flight_status |-> status]

SeqsUpTo(S, n) == UNION {[1..len -> S] : len \in 0..n}

\* longest list of records that differ in duration and date
MaxDurLen == 2
\* longest list of records that differ in their codes
MaxCodeLen == 2
\* longest list of records that differ in their status
MaxStatusLen == 2
\* longest list of legs
MaxLegLen == 7
\* the number of records of the long lists
LongLen == 2001
\* longest list of records without a usable field
MaxJunkLen == 3
\* durations a row can carry: numbers, numeric and other strings, absent
DurVals ==
  {Hours8(42), Hours8(9), Str(<<"3", ".", "5">>), Str(<<"a", "b", "c">>),
   Null}

\* every kind of value, for the coercion alone
AnyDurVals ==
  DurVals \cup
    {NaN, Undefined, Num(0), Str(<<>>), Str(<<" ", "2", ".", "5", "h">>),
     Str(<<"-", "0", ".", "2", "5">>),
     Str(<<".", "5">>), Str(<<"+", "1", "2">>), Str(<<".">>),
     DateOf(2026, 9)}

\* dates a row can carry: October 2026, October 2025, none, no date
DateVals == {DateOf(2026, 9), DateOf(2025, 9), Null, Text("not a date")}

\* further dates: January 2026, March 2027, the empty string
MoreDateVals == DateVals \cup {DateOf(2026, 0), DateOf(2027, 2), Text("")}

\* the states in which the random generator is found
Seeds == {0, 3}

StatusVals ==
  {Text("scheduled"), Text("active"), Text("completed"), Text("cancelled"),
   Text("diverted"), Text("Completed"), Null}

\* November 2026 and February 2026 (window across the year boundary)
TwoNows == {DateOf(2026, 10), DateOf(2026, 1)}

AllNows == {DateOf(y, m) : y \in {2026, 2027}, m \in 0..11}

BaseFlight ==
  Flight(Text("JFK"), Text("LAX"), Text("AA"), Hours8(42), DateOf(2026, 9),
         Text("completed"))

DurDateFlights ==
  {[BaseFlight EXCEPT !.duration_hours = d, !.flight_date = t] :
     d \in DurVals, t \in DateVals}

DateFlights ==
  {[BaseFlight EXCEPT !.flight_date = t] : t \in MoreDateVals}

CodeFlights ==
  {[BaseFlight EXCEPT !.departure_iata = dep, !.arrival_iata = arr,
                      !.airline_iata = al] :
     dep \in {Text("JFK"), Null},
     arr \in {Text("LAX"), Text("")},
     al \in {Text("AA"), Text(""), Undefined, Text("N/A")}}

StatusFlights ==
  {[BaseFlight EXCEPT !.flight_status = st] : st \in StatusVals}

\* long lists of completed flights that end with a flight that is not
LongFlights ==
  {[i \in 1..LongLen |->
      IF i = LongLen THEN [BaseFlight EXCEPT !.flight_status = st]
      ELSE BaseFlight] : st \in {Text("cancelled"), Text("diverted")}}

\* five flights of one route of which the first alone has a duration: the
\* fifth of 0.375 h and of 1.125 h lies halfway between two hundredths
TieFlights ==
  {<<[BaseFlight EXCEPT !.duration_hours = d]>>
     \o [i \in 1..4 |-> [BaseFlight EXCEPT !.duration_hours = Null]] :
       d \in {Hours8(3), Hours8(9)}}

\* records without a usable field: an empty object, a record of nulls and
\* empty strings, a record of strings that mean nothing; and a good record
JunkFlights ==
  {Flight(Undefined, Undefined, Undefined, Undefined, Undefined, Undefined),
   Flight(Text(""), Null, Text(""), Str(<<>>), Null, Null),
   Flight(Null, Text(""), Null, Str(<<"a", "b", "c">>), Text("not a date"),
          Text("diverted")),
   BaseFlight}

\* seven legs with seven routes and six carriers, in no alphabetical order
Legs ==
  <<Flight(Text("ORD"), Text("SFO"), Text("UA"), Hours8(34), DateOf(2026, 9),
           Text("completed")),
    Flight(Text("JFK"), Text("LAX"), Text("AA"), Hours8(42), DateOf(2026, 8),
           Text("completed")),
    Flight(Text("LAX"), Text("ORD"), Text("DL"), Str(<<"3", ".", "5">>),
           DateOf(2026, 7), Text("active")),
    Flight(Text("ATL"), Text("JFK"), Text("QF"), Hours8(18), DateOf(2026, 6),
           Text("scheduled")),
    Flight(Text("SEA"), Text("DEN"), Text("BA"), Hours8(20), DateOf(2026, 5),
           Text("cancelled")),
    Flight(Text("BOS"), Text("MIA"), Text("LH"), Hours8(26), DateOf(2026, 4),
           Text("completed")),
    Flight(Text("DEN"), Text("ATL"), Text("DL"), Hours8(22), DateOf(2026, 3),
           Text("completed"))>>

MaxOf(S) == IF S = {} THEN 0 ELSE CHOOSE x \in S : \A y \in S : y <= x

\* lists of leg numbers of length len in which a leg number is new only
\* when all smaller ones were used before (every pattern of repeated keys,
\* up to the names of the keys)
RECURSIVE LegPatterns(_)
LegPatterns(len) ==
  IF len = 0 THEN {<<>>}
  ELSE UNION {{Append(p, j) :
                 j \in 1..(IF MaxOf({p[i] : i \in 1..Len(p)}) < Len(Legs)
                           THEN MaxOf({p[i] : i \in 1..Len(p)}) + 1
                           ELSE Len(Legs))} :
              p \in LegPatterns(len - 1)}

LegFlights == {[i \in 1..Len(p) |-> Legs[p[i]]] :
                 p \in UNION {LegPatterns(len) : len \in 0..MaxLegLen}}

\* the calls the model makes: an input list, a current date
Inputs ==
  {[flights |-> Null, now |-> DateOf(2026, 10)]}
  \cup {[flights |-> Arr(fs), now |-> n] :
          fs \in SeqsUpTo(DurDateFlights, MaxDurLen), n \in TwoNows}
  \cup {[flights |-> Arr(fs), now |-> n] :
          fs \in SeqsUpTo(DateFlights, 1), n \in AllNows}
  \cup {[flights |-> Arr(fs), now |-> DateOf(2026, 10)] :
          fs \in SeqsUpTo(CodeFlights, MaxCodeLen)}
  \cup {[flights |-> Arr(fs), now |-> DateOf(2026, 10)] :
          fs \in SeqsUpTo(StatusFlights, MaxStatusLen)}
  \cup {[flights |-> Arr(fs), now |-> DateOf(2026, 10)] : fs \in LegFlights}
  \cup {[flights |-> Arr(fs), now |-> DateOf(2026, 10)] : fs \in LongFlights}
  \cup {[flights |-> Arr(fs), now |-> DateOf(2026, 10)] : fs \in TieFlights}
  \cup {[flights |-> Arr(fs), now |-> DateOf(2026, 10)] :
          fs \in SeqsUpTo(JunkFlights, MaxJunkLen)}

\* every kind of duration value, and the records without a usable field
AnyInputs ==
  {[flights |-> Arr(fs), now |-> DateOf(2026, 10)] :
     fs \in SeqsUpTo({[BaseFlight EXCEPT !.duration_hours = d] :
                        d \in AnyDurVals}, MaxDurLen)}
  \cup {[flights |-> Arr(fs), now |-> DateOf(2026, 10)] :
          fs \in SeqsUpTo(JunkFlights, MaxJunkLen)}

(***************************************************************************)
(* The state machine: a call of processFlightAnalytics(flights) made at    *)
(* the date `now`; `out` is the value it returned, `prev` the value and    *)
(* the date of an earlier call with the same input. `table` is the table   *)
(* detailed_flights, `reqs` the GET /analytics requests and `audit` the    *)
(* rows written to audit_logs.                                             *)
(***************************************************************************)
Requests == {"r1", "r2"}

NoRequest == [stage |-> "none"]

\* no call made, no request received
Fresh ==
  /\ pc = "idle"
  /\ out = [k |-> "none"]
  /\ prev = [k |-> "none"]
  /\ reqs = [r \in Requests |-> NoRequest]
  /\ audit = <<>>
  /\ guard = [r \in Requests |-> [stage |-> "none"]]
  /\ regs = [r \in Requests |-> [stage |-> "none"]]
  /\ session = [stage |-> "unmounted"]
  /\ hook = [stage |-> "unmounted"]
  /\ uploads = [r \in Requests |-> [stage |-> "none"]]

Init ==
  /\ Fresh
  /\ pilots = <<>>
  /\ table = <<>>
  /\ \E inp \in Inputs : flights = inp.flights /\ now = inp.now

InitAny ==
  /\ Fresh
  /\ pilots = <<>>
  /\ table = <<>>
  /\ \E inp \in AnyInputs : flights = inp.flights /\ now = inp.now

\* a variant that stores the coerced duration in the record it read it from
ProcessFlightAnalytics_coercesInPlace ==
  /\ pc = "idle"
  /\ \E seed \in Seeds :
       out' = processFlightAnalytics(flights, now, seed)
  /\ pc' = "returned"
  /\ flights' =
       IF flights.k = "array"
       THEN Arr([i \in 1..Len(flights.items) |->
                  [flights.items[i] EXCEPT
                     !.duration_hours = safeParseFloat(@)]])
       ELSE flights
  /\ UNCHANGED <<now, prev, table, reqs, audit>>
  /\ UNCHANGED webVars

\* the call: the function reads flights and the clock, draws its random
\* numbers and returns; no statement of it assigns to the array, to a
\* record of it or to anything outside the call
ProcessFlightAnalytics ==
  /\ pc = "idle"
  /\ \E seed \in Seeds :
       out' = processFlightAnalytics(flights, now, seed)
  /\ pc' = "returned"
  /\ UNCHANGED <<flights, now, prev, table, reqs, audit>>
  /\ UNCHANGED webVars

Next == ProcessFlightAnalytics

Spec == Init /\ [][Next]_vars

SpecAny == InitAny /\ [][Next]_vars

(***************************************************************************)
(* Two calls with one input: the first result is kept, time may pass, the  *)
(* function is called again.                                               *)
(***************************************************************************)
\* the last month the clock of the model reaches
LastNow == DateOf(2026, 11)

TwiceInputs ==
  {[flights |-> Null, now |-> DateOf(2026, 10)]}
  \cup {[flights |-> Arr(fs), now |-> n] :
          fs \in SeqsUpTo(DateFlights, 1),
          n \in {DateOf(2026, 9), DateOf(2026, 10)}}
  \cup {[flights |-> Arr([i \in 1..Len(p) |-> Legs[p[i]]]),
         now |-> DateOf(2026, 10)] : p \in LegPatterns(3)}

InitTwice ==
  /\ Fresh
  /\ pilots = <<>>
  /\ table = <<>>
  /\ \E inp \in TwiceInputs : flights = inp.flights /\ now = inp.now

\* a month passes between two calls: new Date() returns a date of the
\* next month
Tick ==
  /\ pc = "idle"
  /\ now.y = LastNow.y /\ now.m < LastNow.m
  /\ now' = [now EXCEPT !.m = @ + 1]
  /\ UNCHANGED <<flights, pc, out, prev, table, reqs, audit>>
  /\ UNCHANGED webVars

\* the caller keeps the result and is about to call with the same input
CallAgain ==
  /\ pc = "returned"
  /\ prev.k = "none"
  /\ prev' = [k |-> "result", out |-> out, at |-> now]
  /\ pc' = "idle"
  /\ out' = [k |-> "none"]
  /\ UNCHANGED <<flights, now, table, reqs, audit>>
  /\ UNCHANGED webVars

NextTwice == ProcessFlightAnalytics \/ Tick \/ CallAgain

SpecTwice == InitTwice /\ [][NextTwice]_vars

(***************************************************************************)
(* GET /analytics. A request that passed authenticateToken carries the     *)
(* payload of its token in req.user; the handler sends its query, and the  *)
(* callback of the query aggregates the rows, writes the audit row and     *)
(* answers.                                                                *)
(***************************************************************************)
\* an id of the table pilots
Id(n) == [k |-> "id", v |-> n]

\* the payloads the server signs: id, email, role of a pilots row
Users ==
  {[id |-> Id(1), email |-> "p1@elbs", role |-> "pilot"],
   [id |-> Id(2), email |-> "p2@elbs", role |-> "pilot"],
   [id |-> Id(3), email |-> "a3@elbs", role |-> "admin"]}

\* most rows of detailed_flights
MaxRows == 2

\* rows of detailed_flights: the creator is a pilot or NULL, and the
\* duration tells the creator
FlightRows ==
  {[created_by |-> c.by, departure_iata |-> Text("JFK"),
    arrival_iata |-> Text("LAX"), airline_iata |-> Text(c.al),
    duration_hours |-> c.dur, flight_date |-> d,
    flight_status |-> Text("completed")] :
     c \in {[by |-> Id(1), al |-> "AA", dur |-> Hours8(42)],
            [by |-> Id(2), al |-> "DL", dur |-> Hours8(9)],
            [by |-> Null, al |-> "UA", dur |-> Str(<<"3", ".", "5">>)]},
     d \in {DateOf(2026, 9), DateOf(2026, 8)}}

\* a variant that leaves the WHERE clause out
SelectFlights_noFilter(tbl, isAdmin, params) == 1..Len(tbl)

\* SELECT * FROM detailed_flights [WHERE created_by = ?]: the numbers of
\* the rows selected (a NULL creator equals no id)
SelectFlights(tbl, isAdmin, params) ==
  IF isAdmin THEN 1..Len(tbl)
  ELSE {i \in 1..Len(tbl) : tbl[i].created_by = params[1]}

\* ORDER BY flight_date DESC: the orders the database may return the rows
\* in, rows of one date in any order
OrderByDateDesc(tbl, I) ==
  {[j \in 1..Cardinality(I) |-> tbl[p[j]]] :
     p \in {q \in [1..Cardinality(I) -> I] :
              /\ \A a, b \in 1..Cardinality(I) : a # b => q[a] # q[b]
              /\ \A a, b \in 1..Cardinality(I) :
                   a < b => tbl[q[a]].flight_date.y * 12 + tbl[q[a]].flight_date.m
                              >= tbl[q[b]].flight_date.y * 12
                                   + tbl[q[b]].flight_date.m}}

InitApi ==
  /\ Fresh
  /\ pilots = <<>>
  /\ flights = Null
  /\ now = DateOf(2026, 10)
  /\ table \in SeqsUpTo(FlightRows, MaxRows)

\* the handler up to db.query(sql, params, callback); r2 names the request
\* that arrives second
Request(r, user) ==
  /\ reqs[r].stage = "none"
  /\ r = "r2" => reqs["r1"].stage # "none"
  /\ LET isAdmin == user.role = "admin"
     IN  reqs' = [reqs EXCEPT ![r] =
                    [stage |-> "querying", user |-> user, isAdmin |-> isAdmin,
                     params |-> IF isAdmin THEN <<>> ELSE <<user.id>>]]
  /\ UNCHANGED <<flights, now, pc, out, prev, table, audit>>
  /\ UNCHANGED webVars

\* the callback with err set
QueryError(r) ==
  /\ reqs[r].stage = "querying"
  /\ reqs' = [reqs EXCEPT ![r] =
                [stage |-> "done", user |-> reqs[r].user,
                 status |-> 500, body |-> [message |-> "Database error"]]]
  /\ UNCHANGED <<flights, now, pc, out, prev, table, audit>>
  /\ UNCHANGED webVars

\* a variant in which the handlers share the parameters of the query: the
\* callback selects with those of the request that arrived last
QueryResult_sharedParams(r) ==
  /\ reqs[r].stage = "querying"
  /\ LET last == IF reqs["r2"].stage = "none" THEN "r1" ELSE "r2"
     IN  \E rows \in OrderByDateDesc(table,
                       SelectFlights(table, reqs[last].isAdmin,
                                     IF reqs[last].isAdmin THEN <<>>
                                     ELSE <<reqs[last].user.id>>)),
            seed \in Seeds :
           /\ reqs' = [reqs EXCEPT ![r] =
                         [stage |-> "done", user |-> reqs[r].user,
                          status |-> 200,
                          body |-> processFlightAnalytics(Arr(rows), now, seed)]]
           /\ audit' = Append(audit,
                         [action |-> "analytics_viewed",
                          user_id |-> reqs[r].user.email,
                          flightCount |-> Len(rows)])
  /\ UNCHANGED <<flights, now, pc, out, prev, table>>
  /\ UNCHANGED webVars

\* the callback with the rows of the query
QueryResult(r) ==
  /\ reqs[r].stage = "querying"
  /\ \E rows \in OrderByDateDesc(table,
                   SelectFlights(table, reqs[r].isAdmin, reqs[r].params)),
        seed \in Seeds :
       /\ reqs' = [reqs EXCEPT ![r] =
                     [stage |-> "done", user |-> reqs[r].user,
                      status |-> 200,
                      body |-> processFlightAnalytics(Arr(rows), now, seed)]]
       /\ audit' = Append(audit,
                     [action |-> "analytics_viewed",
                      user_id |-> reqs[r].user.email,
                      flightCount |-> Len(rows)])
  /\ UNCHANGED <<flights, now, pc, out, prev, table>>
  /\ UNCHANGED webVars

NextApi ==
  \/ \E r \in Requests, user \in Users : Request(r, user)
  \/ \E r \in Requests : QueryError(r)
  \/ \E r \in Requests : QueryResult(r)

SpecApi == InitApi /\ [][NextApi]_vars

(***************************************************************************)
(* authenticateToken, the middleware in front of every protected route. A  *)
(* header is a string by character; the tokens are single characters: "g"  *)
(* and "h" are signed with the secret and in date, "x" is signed with      *)
(* another key, "e" has expired.                                           *)
(***************************************************************************)
Bearer == <<"B", "e", "a", "r", "e", "r">>

\* req.headers['authorization']: absent, empty, a scheme alone, a scheme
\* and a token, two spaces, a token alone, another scheme, a third part
Headers ==
  {Undefined, Str(<<>>), Str(Bearer), Str(Bearer \o <<" ">>),
   Str(Bearer \o <<" ", "g">>), Str(Bearer \o <<" ", "h">>),
   Str(Bearer \o <<" ", "x">>), Str(Bearer \o <<" ", "e">>),
   Str(Bearer \o <<" ", " ", "g">>), Str(<<"g">>),
   Str(<<"B", "a", "s", "i", "c", " ", "g">>),
   Str(Bearer \o <<" ", "g", " ", "x">>)}

\* String.prototype.split(sep) for a separator of one character
RECURSIVE Split(_, _)
Split(chars, sep) ==
  IF \A i \in 1..Len(chars) : chars[i] # sep THEN <<chars>>
  ELSE LET i == CHOOSE j \in 1..Len(chars) :
                  chars[j] = sep /\ \A l \in 1..(j - 1) : chars[l] # sep
       IN  <<SubSeq(chars, 1, i - 1)>>
             \o Split(SubSeq(chars, i + 1, Len(chars)), sep)

\* authHeader && authHeader.split(' ')[1]
TokenOf(authHeader) ==
  IF ~Truthy(authHeader) THEN authHeader
  ELSE LET parts == Split(authHeader.chars, " ")
       IN  IF Len(parts) >= 2 THEN Str(parts[2]) ELSE Undefined

\* jwt.verify(token, JWT_SECRET, callback): the arguments of the callback
Verify(token) ==
  CASE token = Str(<<"g">>) ->
         [err |-> Null,
          user |-> [id |-> Id(1), email |-> "p1@elbs", role |-> "pilot"]]
    [] token = Str(<<"h">>) ->
         [err |-> Null,
          user |-> [id |-> Id(3), email |-> "a3@elbs", role |-> "admin"]]
    [] token = Str(<<"e">>) ->
         [err |-> Text("TokenExpiredError"), user |-> Undefined]
    [] OTHER -> [err |-> Text("JsonWebTokenError"), user |-> Undefined]

InitGuard ==
  /\ Fresh
  /\ flights = Null
  /\ now = DateOf(2026, 10)
  /\ table = <<>>
  /\ pilots = <<>>

\* authenticateToken up to jwt.verify: sent is what res has sent, nexts
\* counts the calls of next(), user is req.user
AuthenticateToken(r, authHeader) ==
  /\ guard[r].stage = "none"
  /\ r = "r2" => guard["r1"].stage # "none"
  /\ LET token == TokenOf(authHeader)
     IN  guard' = [guard EXCEPT ![r] =
                     IF ~Truthy(token)
                     THEN [stage |-> "answered", header |-> authHeader,
                           token |-> token, sent |-> <<401>>, nexts |-> 0,
                           user |-> Undefined]
                     ELSE [stage |-> "verifying", header |-> authHeader,
                           token |-> token, sent |-> <<>>, nexts |-> 0,
                           user |-> Undefined]]
  /\ UNCHANGED <<pilots, regs, session, hook, uploads>>
  /\ UNCHANGED analyticsVars

\* a variant that goes on to next() after the 403
VerifyCallback_noReturn(r) ==
  /\ guard[r].stage = "verifying"
  /\ LET res == Verify(guard[r].token)
     IN  guard' = [guard EXCEPT ![r] =
                     IF Truthy(res.err)
                     THEN [@ EXCEPT !.stage = "next", !.sent = <<403>>,
                                    !.nexts = 1]
                     ELSE [@ EXCEPT !.stage = "next", !.user = res.user,
                                    !.nexts = 1]]
  /\ UNCHANGED <<pilots, regs, session, hook, uploads>>
  /\ UNCHANGED analyticsVars

\* the callback of jwt.verify
VerifyCallback(r) ==
  /\ guard[r].stage = "verifying"
  /\ LET res == Verify(guard[r].token)
     IN  guard' = [guard EXCEPT ![r] =
                     IF Truthy(res.err)
                     THEN [@ EXCEPT !.stage = "answered", !.sent = <<403>>]
                     ELSE [@ EXCEPT !.stage = "next", !.user = res.user,
                                    !.nexts = 1]]
  /\ UNCHANGED <<pilots, regs, session, hook, uploads>>
  /\ UNCHANGED analyticsVars

\* the handler of the route, which next() runs: it answers for req.user
RouteHandler(r) ==
  /\ guard[r].stage = "next"
  /\ guard' = [guard EXCEPT ![r] =
                 [@ EXCEPT !.stage = "handled", !.sent = Append(@, 200)]]
  /\ UNCHANGED <<pilots, regs, session, hook, uploads>>
  /\ UNCHANGED analyticsVars

NextGuard ==
  \/ \E r \in Requests, authHeader \in Headers : AuthenticateToken(r, authHeader)
  \/ \E r \in Requests : VerifyCallback(r)
  \/ \E r \in Requests : RouteHandler(r)

SpecGuard == InitGuard /\ [][NextGuard]_vars

(***************************************************************************)
(* POST /auth/register. The handler validates the body, asks the database  *)
(* whether a pilot with the email or the username exists, hashes the       *)
(* password and inserts the row; the table pilots has a UNIQUE index on    *)
(* email and one on username. Each callback is a step of its own.          *)
(***************************************************************************)
\* req.body: two emails, two usernames, a password of six characters and
\* one of three, and a body without an email
Bodies ==
  {[email |-> Text(e), username |-> Text(u), password |-> Str(p)] :
     e \in {"a@x", "b@x"}, u \in {"u", "v"},
     p \in {<<"s", "e", "c", "r", "e", "t">>, <<"a", "b", "c">>}}
  \cup {[email |-> Undefined, username |-> Text("u"),
         password |-> Str(<<"s", "e", "c", "r", "e", "t">>)]}

\* SELECT id FROM pilots WHERE email = ? OR username = ?
SelectPilots(tbl, email, username) ==
  {i \in 1..Len(tbl) : tbl[i].email = email \/ tbl[i].username = username}

\* a variant for a table without the UNIQUE indexes
InsertPilot_noUnique(tbl, row) ==
  [err |-> Null, insertId |-> Len(tbl) + 1,
   tbl |-> Append(tbl, [id |-> Id(Len(tbl) + 1), email |-> row.email,
                        username |-> row.username, role |-> row.role])]

\* INSERT INTO pilots (...) VALUES (...): the row gets the next id, unless
\* a row has its email or its username already
InsertPilot(tbl, row) ==
  IF \E i \in 1..Len(tbl) :
       tbl[i].email = row.email \/ tbl[i].username = row.username
  THEN [err |-> Text("ER_DUP_ENTRY"), insertId |-> 0, tbl |-> tbl]
  ELSE [err |-> Null, insertId |-> Len(tbl) + 1,
        tbl |-> Append(tbl, [id |-> Id(Len(tbl) + 1), email |-> row.email,
                             username |-> row.username, role |-> row.role])]

InitRegister ==
  /\ Fresh
  /\ flights = Null
  /\ now = DateOf(2026, 10)
  /\ table = <<>>
  /\ pilots \in {<<>>,
                 <<[id |-> Id(1), email |-> Text("b@x"),
                    username |-> Text("v"), role |-> "pilot"]>>}

\* the handler up to db.query(checkSql, ...); err is the error that the
\* callback logs
Register(r, body) ==
  /\ regs[r].stage = "none"
  /\ r = "r2" => regs["r1"].stage # "none"
  /\ regs' = [regs EXCEPT ![r] =
       IF \/ ~Truthy(body.email) \/ ~Truthy(body.password)
          \/ ~Truthy(body.username)
       THEN [stage |-> "done", body |-> body, status |-> 400,
             message |-> "Email, password, username, first name, and last name are required",
             token |-> Undefined, err |-> Null]
       ELSE IF Len(body.password.chars) < 6
       THEN [stage |-> "done", body |-> body, status |-> 400,
             message |-> "Password must be at least 6 characters long",
             token |-> Undefined, err |-> Null]
       ELSE [stage |-> "checking", body |-> body,
             role |-> IF body.email = Text("admin@company.com")
                      THEN "admin" ELSE "pilot"]]
  /\ UNCHANGED <<guard, pilots, session, hook, uploads>>
  /\ UNCHANGED analyticsVars

\* the callback of the check with checkErr set
CheckError(r) ==
  /\ regs[r].stage = "checking"
  /\ regs' = [regs EXCEPT ![r] =
                [stage |-> "done", body |-> regs[r].body, status |-> 500,
                 message |-> "Database error", token |-> Undefined,
                 err |-> Text("PROTOCOL_CONNECTION_LOST")]]
  /\ UNCHANGED <<guard, pilots, session, hook, uploads>>
  /\ UNCHANGED analyticsVars

\* the callback of the check with its rows, up to await bcrypt.hash(...)
CheckResult(r) ==
  /\ regs[r].stage = "checking"
  /\ regs' = [regs EXCEPT ![r] =
       IF SelectPilots(pilots, regs[r].body.email, regs[r].body.username) # {}
       THEN [stage |-> "done", body |-> regs[r].body, status |-> 400,
             message |-> "Pilot with this email or username already exists",
             token |-> Undefined, err |-> Null]
       ELSE [@ EXCEPT !.stage = "hashing"]]
  /\ UNCHANGED <<guard, pilots, session, hook, uploads>>
  /\ UNCHANGED analyticsVars

\* the hash is there: db.query(insertSql, values, ...)
SendInsert(r) ==
  /\ regs[r].stage = "hashing"
  /\ regs' = [regs EXCEPT ![r] = [@ EXCEPT !.stage = "inserting"]]
  /\ UNCHANGED <<guard, pilots, session, hook, uploads>>
  /\ UNCHANGED analyticsVars

\* the database runs the insert and the callback answers: 500 on insertErr,
\* else 201 with a token signed for the new row
InsertResult(r) ==
  /\ regs[r].stage = "inserting"
  /\ LET b == regs[r].body
         done == InsertPilot(pilots, [email |-> b.email,
                                      username |-> b.username,
                                      role |-> regs[r].role])
     IN  /\ pilots' = done.tbl
         /\ regs' = [regs EXCEPT ![r] =
              IF Truthy(done.err)
              THEN [stage |-> "done", body |-> b, status |-> 500,
                    message |-> "Failed to create pilot account",
                    token |-> Undefined, err |-> done.err]
              ELSE [stage |-> "done", body |-> b, status |-> 201,
                    message |-> "Pilot account created successfully",
                    token |-> [id |-> Id(done.insertId), email |-> b.email,
                               username |-> b.username,
                               role |-> regs[r].role],
                    err |-> Null]]
  /\ UNCHANGED <<guard, session, hook, uploads>>
  /\ UNCHANGED analyticsVars

\* the insert fails for another reason (the connection is lost)
InsertError(r) ==
  /\ regs[r].stage = "inserting"
  /\ regs' = [regs EXCEPT ![r] =
                [stage |-> "done", body |-> regs[r].body, status |-> 500,
                 message |-> "Failed to create pilot account",
                 token |-> Undefined,
                 err |-> Text("PROTOCOL_CONNECTION_LOST")]]
  /\ UNCHANGED <<guard, pilots, session, hook, uploads>>
  /\ UNCHANGED analyticsVars

NextRegister ==
  \/ \E r \in Requests, body \in Bodies : Register(r, body)
  \/ \E r \in Requests : CheckError(r)
  \/ \E r \in Requests : CheckResult(r)
  \/ \E r \in Requests : SendInsert(r)
  \/ \E r \in Requests : InsertResult(r)
  \/ \E r \in Requests : InsertError(r)

SpecRegister == InitRegister /\ [][NextRegister]_vars

(***************************************************************************)
(* AuthProvider (src/aviation-frontend/contexts/AuthContext.tsx): the      *)
(* state token, pilot, loading, the item 'pilot_token' of AsyncStorage     *)
(* (stored), and the places at which checkAuth, login or register, and     *)
(* logout wait. An await of AsyncStorage is one step, taken when the       *)
(* promise settles; `await fetch` and `await response.json()` are one      *)
(* step, as nothing is written between them. quiet records that logout has *)
(* completed and that no login or register has been started since.         *)
(***************************************************************************)
\* the token in the storage at startup, if any, and the token the server
\* issues at a login or registration
StartTokens == {Null, Text("t0")}

IssuedToken == Text("t1")

InitSession ==
  /\ Fresh
  /\ flights = Null
  /\ now = DateOf(2026, 10)
  /\ table = <<>>
  /\ pilots = <<>>

\* the first render and the effect that calls checkAuth(), up to
\* await AsyncStorage.getItem('pilot_token')
Mount(item) ==
  /\ session.stage = "unmounted"
  /\ session' = [stage |-> "mounted", token |-> Null, pilot |-> Null,
                 loading |-> TRUE, error |-> Null, stored |-> item,
                 checkAuth |-> [at |-> "getItem", storedToken |-> Null],
                 login |-> [at |-> "idle", ok |-> FALSE],
                 logout |-> [at |-> "idle"],
                 quiet |-> FALSE]
  /\ UNCHANGED <<guard, pilots, regs, hook, uploads>>
  /\ UNCHANGED analyticsVars

\* checkAuth after getItem: fetch /auth/verify for a stored token, else
\* the finally block
CheckAuthGotItem ==
  /\ session.stage = "mounted"
  /\ session.checkAuth.at = "getItem"
  /\ session' =
       IF Truthy(session.stored)
       THEN [session EXCEPT !.checkAuth =
               [at |-> "fetch", storedToken |-> session.stored]]
       ELSE [session EXCEPT !.checkAuth.at = "done", !.loading = FALSE]
  /\ UNCHANGED <<guard, pilots, regs, hook, uploads>>
  /\ UNCHANGED analyticsVars

\* checkAuth after the answer of /auth/verify: ok sets token and pilot,
\* anything else (a status that is not ok, an exception) removes the item
CheckAuthResponse(ok) ==
  /\ session.stage = "mounted"
  /\ session.checkAuth.at = "fetch"
  /\ session' =
       IF ok
       THEN [session EXCEPT !.token = session.checkAuth.storedToken,
                            !.pilot = Text("pilot of t0"),
                            !.checkAuth.at = "done", !.loading = FALSE]
       ELSE [session EXCEPT !.checkAuth.at = "removeItem"]
  /\ UNCHANGED <<guard, pilots, regs, hook, uploads>>
  /\ UNCHANGED analyticsVars

\* checkAuth after await AsyncStorage.removeItem('pilot_token')
CheckAuthRemoved ==
  /\ session.stage = "mounted"
  /\ session.checkAuth.at = "removeItem"
  /\ session' = [session EXCEPT !.stored = Null, !.checkAuth.at = "done",
                                !.loading = FALSE]
  /\ UNCHANGED <<guard, pilots, regs, hook, uploads>>
  /\ UNCHANGED analyticsVars

\* login(email, password) or register(data) up to await fetch(...)
LoginStart ==
  /\ session.stage = "mounted"
  /\ session.login.at = "idle"
  /\ session' = [session EXCEPT !.loading = TRUE, !.error = Null,
                                !.login = [at |-> "fetch", ok |-> FALSE],
                                !.quiet = FALSE]
  /\ UNCHANGED <<guard, pilots, regs, hook, uploads>>
  /\ UNCHANGED analyticsVars

\* login after the answer: not ok (or an exception) sets error and ends,
\* ok goes on to await AsyncStorage.setItem('pilot_token', data.token)
LoginResponse(ok) ==
  /\ session.stage = "mounted"
  /\ session.login.at = "fetch"
  /\ session' =
       IF ok
       THEN [session EXCEPT !.login = [at |-> "setItem", ok |-> TRUE]]
       ELSE [session EXCEPT !.error = Text("Login failed"),
                            !.loading = FALSE,
                            !.login = [at |-> "idle", ok |-> FALSE]]
  /\ UNCHANGED <<guard, pilots, regs, hook, uploads>>
  /\ UNCHANGED analyticsVars

\* login after setItem: setToken(data.token), setPilot(data.pilot)
LoginStored ==
  /\ session.stage = "mounted"
  /\ session.login.at = "setItem"
  /\ session' = [session EXCEPT !.stored = IssuedToken, !.token = IssuedToken,
                                !.pilot = Text("pilot of t1"),
                                !.loading = FALSE,
                                !.login = [at |-> "idle", ok |-> TRUE]]
  /\ UNCHANGED <<guard, pilots, regs, hook, uploads>>
  /\ UNCHANGED analyticsVars

\* logout() up to its first await: the fetch of /auth/logout when there is
\* a token, else removeItem in the finally block
LogoutStart ==
  /\ session.stage = "mounted"
  /\ session.logout.at = "idle"
  /\ session' = [session EXCEPT !.logout.at =
                   IF Truthy(session.token) THEN "fetch" ELSE "removeItem"]
  /\ UNCHANGED <<guard, pilots, regs, hook, uploads>>
  /\ UNCHANGED analyticsVars

\* logout after the fetch, whatever it gave
LogoutResponse ==
  /\ session.stage = "mounted"
  /\ session.logout.at = "fetch"
  /\ session' = [session EXCEPT !.logout.at = "removeItem"]
  /\ UNCHANGED <<guard, pilots, regs, hook, uploads>>
  /\ UNCHANGED analyticsVars

\* logout after removeItem: setToken(null), setPilot(null)
LogoutRemoved ==
  /\ session.stage = "mounted"
  /\ session.logout.at = "removeItem"
  /\ session' = [session EXCEPT !.stored = Null, !.token = Null,
                                !.pilot = Null, !.logout.at = "idle",
                                !.quiet = TRUE]
  /\ UNCHANGED <<guard, pilots, regs, hook, uploads>>
  /\ UNCHANGED analyticsVars

NextSession ==
  \/ \E item \in StartTokens : Mount(item)
  \/ CheckAuthGotItem
  \/ \E ok \in BOOLEAN : CheckAuthResponse(ok)
  \/ CheckAuthRemoved
  \/ LoginStart
  \/ \E ok \in BOOLEAN : LoginResponse(ok)
  \/ LoginStored
  \/ LogoutStart
  \/ LogoutResponse
  \/ LogoutRemoved

SpecSession == InitSession /\ [][NextSession]_vars

(***************************************************************************)
(* useFlights (src/aviation-frontend/hooks/useFlights.ts): the state       *)
(* flights, loading, searchLoading, searchMode, and the requests the hook  *)
(* has issued, each in flight until its answer arrives. The answers of the *)
(* server arrive in any order.                                             *)
(***************************************************************************)
\* most requests a hook issues
MaxIssued == 3

\* the dates asked for; the first is initialDate
FlightDates == {DateOf(2026, 9), DateOf(2026, 8)}

initialDate == DateOf(2026, 9)

\* what the server holds for a request: the flights of the date, or the
\* flight of that number on the date
DataOf(kind, flightNumber, date) ==
  <<[kind |-> kind, flight_iata |-> flightNumber, flight_date |-> date]>>

InitHook ==
  /\ Fresh
  /\ flights = Null
  /\ now = DateOf(2026, 10)
  /\ table = <<>>
  /\ pilots = <<>>

\* setLoading(true) and the fetch of fetchFlightsByDate(date), which does
\* nothing without a token
IssueByDate(h, date) ==
  IF ~Truthy(h.token) THEN h
  ELSE [h EXCEPT !.loading = TRUE,
                 !.issued = Append(@, [kind |-> "byDate",
                                       flightNumber |-> Null, date |-> date,
                                       state |-> "inFlight"])]

\* the first render and the effect
MountHook(token) ==
  /\ hook.stage = "unmounted"
  /\ hook' = IssueByDate([stage |-> "mounted", token |-> token,
                          flights |-> <<>>, loading |-> FALSE,
                          searchLoading |-> FALSE, searchMode |-> FALSE,
                          issued |-> <<>>], initialDate)
  /\ UNCHANGED <<guard, pilots, regs, session, uploads>>
  /\ UNCHANGED analyticsVars

\* fetchFlightsByDate(date) up to await fetch(...)
FetchFlightsByDate(date) ==
  /\ hook.stage = "mounted"
  /\ Truthy(hook.token)
  /\ Len(hook.issued) < MaxIssued
  /\ hook' = IssueByDate(hook, date)
  /\ UNCHANGED <<guard, pilots, regs, session, uploads>>
  /\ UNCHANGED analyticsVars

\* searchFlights(flightNumber, date) with a well-formed number, up to
\* await fetch(...)
SearchFlights(flightNumber, date) ==
  /\ hook.stage = "mounted"
  /\ Truthy(hook.token)
  /\ Len(hook.issued) < MaxIssued
  /\ hook' = [hook EXCEPT !.searchLoading = TRUE,
                          !.issued = Append(@, [kind |-> "search",
                                                flightNumber |-> flightNumber,
                                                date |-> date,
                                                state |-> "inFlight"])]
  /\ UNCHANGED <<guard, pilots, regs, session, uploads>>
  /\ UNCHANGED analyticsVars

\* resetSearch()
ResetSearch ==
  /\ hook.stage = "mounted"
  /\ Truthy(hook.token)
  /\ Len(hook.issued) < MaxIssued
  /\ hook' = IssueByDate([hook EXCEPT !.searchMode = FALSE], initialDate)
  /\ UNCHANGED <<guard, pilots, regs, session, uploads>>
  /\ UNCHANGED analyticsVars

\* the rest of fetchFlightsByDate or searchFlights once the answer of the
\* n-th request is there: ok with the data, or not ok (or an exception)
Response(n, ok) ==
  /\ hook.stage = "mounted"
  /\ n \in 1..Len(hook.issued)
  /\ hook.issued[n].state = "inFlight"
  /\ LET req == hook.issued[n]
         data == DataOf(req.kind, req.flightNumber, req.date)
         h == [hook EXCEPT !.issued[n].state = IF ok THEN "ok" ELSE "failed"]
     IN  hook' =
           IF req.kind = "byDate"
           THEN [h EXCEPT !.flights = IF ok THEN data ELSE <<>>,
                          !.loading = FALSE]
           ELSE [h EXCEPT !.flights = IF ok THEN data ELSE @,
                          !.searchMode = IF ok THEN TRUE ELSE @,
                          !.searchLoading = FALSE]
  /\ UNCHANGED <<guard, pilots, regs, session, uploads>>
  /\ UNCHANGED analyticsVars

NextHook ==
  \/ \E token \in {Null, Text("t1")} : MountHook(token)
  \/ \E date \in FlightDates : FetchFlightsByDate(date)
  \/ \E date \in FlightDates : SearchFlights(Text("AA1234"), date)
  \/ ResetSearch
  \/ \E n \in 1..MaxIssued, ok \in BOOLEAN : Response(n, ok)

SpecHook == InitHook /\ [][NextHook]_vars

(***************************************************************************)
(* POST /upload-schedule, behind authenticateToken and multer: temp tells  *)
(* whether the temporary file of the upload exists, sent is what res has   *)
(* sent. fs.unlinkSync is taken to succeed on the file multer has written. *)
(***************************************************************************)
\* most rows of an uploaded CSV file
MaxCsvRows == 2

\* req.file: none, or a file of one of these types
FileTypes == {"text/csv", "application/pdf", "image/png"}

InitUpload ==
  /\ Fresh
  /\ flights = Null
  /\ now = DateOf(2026, 10)
  /\ table = <<>>
  /\ pilots = <<>>

\* the handler without a file: 400
UploadNothing(r) ==
  /\ uploads[r].stage = "none"
  /\ r = "r2" => uploads["r1"].stage # "none"
  /\ uploads' = [uploads EXCEPT ![r] =
                   [stage |-> "done", file |-> Null, temp |-> FALSE,
                    sent |-> <<400>>, results |-> 0, left |-> 0]]
  /\ UNCHANGED <<guard, pilots, regs, session, hook>>
  /\ UNCHANGED analyticsVars

\* the handler with a file: a CSV file is opened and piped into the
\* parser, a PDF file is removed and answered 200, any other file is
\* removed and answered 400
Upload(r, fileType) ==
  /\ uploads[r].stage = "none"
  /\ r = "r2" => uploads["r1"].stage # "none"
  /\ uploads' = [uploads EXCEPT ![r] =
       CASE fileType = "text/csv" ->
              [stage |-> "reading", file |-> Text(fileType), temp |-> TRUE,
               sent |-> <<>>, results |-> 0, left |-> 0]
         [] fileType = "application/pdf" ->
              [stage |-> "done", file |-> Text(fileType), temp |-> FALSE,
               sent |-> <<200>>, results |-> 0, left |-> 0]
         [] OTHER ->
              [stage |-> "done", file |-> Text(fileType), temp |-> FALSE,
               sent |-> <<400>>, results |-> 0, left |-> 0]]
  /\ UNCHANGED <<guard, pilots, regs, session, hook>>
  /\ UNCHANGED analyticsVars

\* .on('data', (data) => results.push(data))
StreamData(r) ==
  /\ uploads[r].stage = "reading"
  /\ uploads[r].results < MaxCsvRows
  /\ uploads' = [uploads EXCEPT ![r].results = @ + 1]
  /\ UNCHANGED <<guard, pilots, regs, session, hook>>
  /\ UNCHANGED analyticsVars

\* the read stream or the parser emits 'error': the handler has set no
\* listener for it, the try block has been left, so nothing removes the
\* file and nothing answers
StreamError(r) ==
  /\ uploads[r].stage = "reading"
  /\ uploads' = [uploads EXCEPT ![r].stage = "failed"]
  /\ UNCHANGED <<guard, pilots, regs, session, hook>>
  /\ UNCHANGED analyticsVars

\* .on('end', ...) up to await processScheduleData(results, req.user)
StreamEnd(r) ==
  /\ uploads[r].stage = "reading"
  /\ uploads' = [uploads EXCEPT ![r] =
                   [@ EXCEPT !.stage = "processing", !.temp = FALSE,
                             !.left = uploads[r].results]]
  /\ UNCHANGED <<guard, pilots, regs, session, hook>>
  /\ UNCHANGED analyticsVars

\* one turn of the loop of processScheduleData, which catches what the
\* row throws
ProcessRow(r) ==
  /\ uploads[r].stage = "processing"
  /\ uploads[r].left > 0
  /\ uploads' = [uploads EXCEPT ![r].left = @ - 1]
  /\ UNCHANGED <<guard, pilots, regs, session, hook>>
  /\ UNCHANGED analyticsVars

\* res.json({ success: true, ... }) after processScheduleData
Processed(r) ==
  /\ uploads[r].stage = "processing"
  /\ uploads[r].left = 0
  /\ uploads' = [uploads EXCEPT ![r] =
                   [@ EXCEPT !.stage = "done", !.sent = Append(@, 200)]]
  /\ UNCHANGED <<guard, pilots, regs, session, hook>>
  /\ UNCHANGED analyticsVars

NextUpload ==
  \/ \E r \in Requests : UploadNothing(r)
  \/ \E r \in Requests, fileType \in FileTypes : Upload(r, fileType)
  \/ \E r \in Requests : StreamData(r)
  \/ \E r \in Requests : StreamError(r)
  \/ \E r \in Requests : StreamEnd(r)
  \/ \E r \in Requests : ProcessRow(r)
  \/ \E r \in Requests : Processed(r)

SpecUpload == InitUpload /\ [][NextUpload]_vars

TypeOK ==
  /\ pc \in {"idle", "returned"}
  /\ pc = "returned" => out.totalFlights \in Nat
  /\ prev.k \in {"none", "result"}
  /\ \A r \in Requests : reqs[r].stage \in {"none", "querying", "done"}
  /\ Len(audit) <= Cardinality(Requests)

(***************************************************************************)
(* Properties                                                              *)
(***************************************************************************)
Returned == pc = "returned"

\* the records of the input, none for a null input
Items == IF flights.k = "array" THEN flights.items ELSE <<>>

\* the coercion of a duration as documented: a number is itself, a string
\* that starts with a numeral is that numeral, anything else is 0
Coerced(value) ==
  CASE value.k = "number" -> value
    [] value.k = "string" /\ ~IsNaN(ParseFloatChars(value.chars)) ->
         ParseFloatChars(value.chars)
    [] OTHER -> Num(0)

\* the sum of the coerced durations of the records lo..hi of fs that are
\* numbered in I
RECURSIVE SumFrom(_, _, _, _)
SumFrom(fs, I, lo, hi) ==
  IF lo > hi THEN 0
  ELSE IF lo = hi
       THEN (IF lo \in I THEN Coerced(fs[lo].duration_hours).v ELSE 0)
  ELSE SumFrom(fs, I, lo, (lo + hi) \div 2)
         + SumFrom(fs, I, (lo + hi) \div 2 + 1, hi)

\* the sum of the coerced durations of the records of fs numbered in I
SumCoerced(fs, I) == SumFrom(fs, I, 1, Len(fs))

\* C1: totalFlights is the number of records of the input, 0 for an empty
\* or null input, whatever the records contain
C1_TotalFlights == Returned => out.totalFlights = Len(Items)

\* a call returned for two records, one without a date and one with a
\* duration that is no number
C1_Witness ==
  /\ Returned
  /\ Len(Items) = 2
  /\ \E i \in 1..2 : ~Truthy(Items[i].flight_date)
  /\ \E i \in 1..2 : Items[i].duration_hours = Str(<<"a", "b", "c">>)

\* C2: totalHours is the sum of the coerced durations of all the records,
\* rounded to 2 decimals
C2_TotalHours ==
  Returned =>
    out.totalHours = ToFixed2(Num(SumCoerced(Items, 1..Len(Items))))

\* a call returned for a numeric string next to an absent duration, the sum
\* needing the rounding
C2_Witness ==
  /\ Returned
  /\ Len(Items) = 2
  /\ Items[1].duration_hours = Str(<<"3", ".", "5">>)
  /\ Items[2].duration_hours = Hours8(9)
  /\ out.totalHours = Num(3704)

\* C3: the coercion returns a number that is never NaN, the value of a
\* numeric string and 0 for whatever else is no number, a NaN included, so
\* that totalHours is never NaN
C3_NeverNaN ==
  Returned =>
    /\ \A i \in 1..Len(Items) :
         LET r == safeParseFloat(Items[i].duration_hours)
         IN  /\ TypeOf(r) = "number" /\ ~IsNaN(r)
             /\ r = Coerced(Items[i].duration_hours)
    /\ ~IsNaN(out.totalHours)

\* C4: an empty or null input gives the zeroed summary
C4_EmptySummary ==
  (Returned /\ Len(Items) = 0) =>
    /\ out.totalFlights = 0
    /\ out.totalHours = Num(0)
    /\ out.averageFlightTime = Num(0)
    /\ out.onTimePercentage = 0
    /\ out.mostFrequentRoute = "N/A"
    /\ out.mostUsedAircraft = "N/A"
    /\ out.aircraftBreakdown = <<>>
    /\ out.routeAnalysis = <<>>
    /\ out.airlineAnalysis = <<>>
    /\ \A st \in {"scheduled", "active", "completed", "cancelled"} :
         out.statusDistribution[st] = 0
    /\ \A t \in {"day", "night", "ifr", "crossCountry"} :
         out.timeDistribution[t] = Num(0)
    /\ \A i \in 1..Len(out.monthlyTrend) :
         out.monthlyTrend[i].flights = 0 /\ out.monthlyTrend[i].hours = Num(0)

\* a call returned for the null input
C4_Witness == Returned /\ flights = Null

\* the i-th (1..6) of the six calendar months that end at the current one,
\* as a month count since year 0
WindowMonth(i) == now.y * 12 + now.m - (6 - i)

\* the records whose flight_date is a date of the calendar month number mn
InMonth(mn) ==
  {j \in 1..Len(Items) :
     /\ Items[j].flight_date.k = "date"
     /\ Items[j].flight_date.y * 12 + Items[j].flight_date.m = mn}

\* C5: for an empty input the six monthlyTrend entries carry the names of
\* the six most recent months, the current one last
C5_EmptyTrendMonths ==
  (Returned /\ Len(Items) = 0) =>
    /\ Len(out.monthlyTrend) = 6
    /\ \A i \in 1..6 :
         out.monthlyTrend[i].month = monthNames[(WindowMonth(i) % 12) + 1]

\* C6: monthlyTrend has exactly 6 entries for every input
C6_SixEntries == Returned => Len(out.monthlyTrend) = 6

\* a call returned for a record dated outside the window and a record
\* whose date cannot be parsed
C6_Witness ==
  /\ Returned
  /\ Len(Items) = 2
  /\ \E j \in 1..2 : Items[j].flight_date = Text("not a date")
  /\ \E j \in 1..2 :
       /\ Items[j].flight_date.k = "date"
       /\ \A i \in 1..6 : j \notin InMonth(WindowMonth(i))

\* C7: for a non-empty input the buckets are the six consecutive calendar
\* months that end at the current month, oldest first, each under the key
\* of its own year and month and named after its month
C7_ConsecutiveMonths ==
  (Returned /\ Len(Items) > 0) =>
    LET keys == MapKeys(InitMonthlyData(now, 5, <<>>))
    IN  /\ Len(keys) = 6 /\ Len(out.monthlyTrend) = 6
        /\ \A i \in 1..6 :
             LET mn == WindowMonth(i)
             IN  /\ keys[i] = ToString(mn \div 12) \o "-"
                                \o PadStart2((mn % 12) + 1)
                 /\ out.monthlyTrend[i].month = monthNames[(mn % 12) + 1]
        /\ \A i, j \in 1..6 : i # j => keys[i] # keys[j]

\* a call returned in a month from January to May, the window reaching
\* into the year before
C7_Witness == Returned /\ Len(Items) > 0 /\ now.m < 5

\* C8: a bucket counts the records dated in its year and month and sums
\* their coerced durations, rounded to 1 decimal; the other records are in
\* no bucket and still in totalFlights and totalHours
C8_BucketContents ==
  (Returned /\ Len(Items) > 0) =>
    /\ Len(out.monthlyTrend) = 6
    /\ \A i \in 1..6 :
         LET I == InMonth(WindowMonth(i))
         IN  /\ out.monthlyTrend[i].flights = Cardinality(I)
             /\ out.monthlyTrend[i].hours = RoundTenth(Num(SumCoerced(Items, I)))
    /\ out.monthlyTrend[1].flights + out.monthlyTrend[2].flights
         + out.monthlyTrend[3].flights + out.monthlyTrend[4].flights
         + out.monthlyTrend[5].flights + out.monthlyTrend[6].flights
         <= out.totalFlights
    /\ out.totalFlights = Len(Items)
    /\ out.totalHours = ToFixed2(Num(SumCoerced(Items, 1..Len(Items))))

\* a call returned for a record inside the window and a record of the
\* same month of another year
C8_Witness ==
  /\ Returned
  /\ Len(Items) = 2
  /\ \E i \in 1..6 : 1 \in InMonth(WindowMonth(i))
  /\ \E i \in 1..6 : 2 \in InMonth(WindowMonth(i) - 12) \cup InMonth(WindowMonth(i) + 12)
  /\ \A i \in 1..6 : 2 \notin InMonth(WindowMonth(i))
  /\ out.totalFlights = 2

RouteKeys == {RouteKey(Items[j]) : j \in 1..Len(Items)}

AircraftKeys == {AircraftKey(Items[j]) : j \in 1..Len(Items)}

RouteCount(key) == Cardinality({j \in 1..Len(Items) : RouteKey(Items[j]) = key})

AircraftCount(key) ==
  Cardinality({j \in 1..Len(Items) : AircraftKey(Items[j]) = key})

\* the number of the first record of the route
RouteFirstSeen(key) ==
  CHOOSE j \in 1..Len(Items) :
    /\ RouteKey(Items[j]) = key
    /\ \A h \in 1..(j - 1) : RouteKey(Items[h]) # key

Min(a, b) == IF a < b THEN a ELSE b

\* C9: mostFrequentRoute is the route key of most records, among several
\* such keys the one seen first in the input, and it is routeAnalysis[0]
C9_MostFrequentRoute ==
  (Returned /\ Len(Items) > 0) =>
    /\ out.mostFrequentRoute \in RouteKeys
    /\ \A key \in RouteKeys \ {out.mostFrequentRoute} :
         \/ RouteCount(out.mostFrequentRoute) > RouteCount(key)
         \/ /\ RouteCount(out.mostFrequentRoute) = RouteCount(key)
            /\ RouteFirstSeen(out.mostFrequentRoute) < RouteFirstSeen(key)
    /\ out.routeAnalysis[1].route = out.mostFrequentRoute

\* a call returned for an input in which two routes tie for the highest
\* count and the one seen first is not the one whose records end first
C9_Witness ==
  /\ Returned
  /\ \E k1, k2 \in RouteKeys :
       /\ k1 # k2
       /\ RouteCount(k1) = RouteCount(k2)
       /\ RouteCount(k1) > 1
       /\ \A key \in RouteKeys : RouteCount(key) <= RouteCount(k1)
       /\ RouteFirstSeen(k1) < RouteFirstSeen(k2)
       /\ RouteKey(Items[Len(Items)]) = k1

\* C10: routeAnalysis and aircraftBreakdown have min(5, distinct keys)
\* entries, each with the count of its key, in an order in which no entry
\* has less than the next, and no key left out has more than an entry
C10_TopFive ==
  (Returned /\ Len(Items) > 0) =>
    /\ Len(out.routeAnalysis) = Min(5, Cardinality(RouteKeys))
    /\ Len(out.aircraftBreakdown) = Min(5, Cardinality(AircraftKeys))
    /\ \A i \in 1..Len(out.routeAnalysis) :
         /\ out.routeAnalysis[i].frequency = RouteCount(out.routeAnalysis[i].route)
         /\ i > 1 => out.routeAnalysis[i - 1].frequency
                       >= out.routeAnalysis[i].frequency
         /\ \A key \in RouteKeys :
              (\A h \in 1..Len(out.routeAnalysis) :
                 out.routeAnalysis[h].route # key)
                => RouteCount(key) <= out.routeAnalysis[i].frequency
    /\ \A i \in 1..Len(out.aircraftBreakdown) :
         /\ out.aircraftBreakdown[i].count
              = AircraftCount(out.aircraftBreakdown[i].type)
         /\ i > 1 => out.aircraftBreakdown[i - 1].count
                       >= out.aircraftBreakdown[i].count
         /\ \A key \in AircraftKeys :
              (\A h \in 1..Len(out.aircraftBreakdown) :
                 out.aircraftBreakdown[h].type # key)
                => AircraftCount(key) <= out.aircraftBreakdown[i].count

\* a call returned for more than five routes and more than five carriers,
\* the route and the carrier seen last being the most frequent ones
C10_Witness ==
  /\ Returned
  /\ Cardinality(RouteKeys) > 5
  /\ Cardinality(AircraftKeys) > 5
  /\ out.routeAnalysis[1].frequency = 2
  /\ out.routeAnalysis[1].route = RouteKey(Items[Len(Items)])
  /\ out.aircraftBreakdown[1].type = AircraftKey(Items[Len(Items)])
  /\ out.aircraftBreakdown[1].count = 2

StatusLiterals == {"scheduled", "active", "completed", "cancelled"}

\* the records whose flight_status is exactly the string lit
WithStatus(lit) == {j \in 1..Len(Items) : Items[j].flight_status = Text(lit)}

CounterSum ==
  out.statusDistribution.scheduled + out.statusDistribution.active
    + out.statusDistribution.completed + out.statusDistribution.cancelled

\* C11: the four statusDistribution counters add up to at most the number
\* of records, and to exactly that number when and only when every record
\* has one of the four statuses
C11_CounterSum ==
  Returned =>
    /\ CounterSum <= Len(Items)
    /\ CounterSum = Len(Items)
         <=> \A j \in 1..Len(Items) :
               \E lit \in StatusLiterals : Items[j].flight_status = Text(lit)

\* a call returned for a cancelled record and a record without a status
C11_Witness ==
  /\ Returned
  /\ Len(Items) = 2
  /\ Items[1].flight_status = Text("cancelled")
  /\ Items[2].flight_status = Null
  /\ CounterSum = 1

\* C17: a counter is the number of records with exactly its status; a
\* record with another status, another letter case or none is in
\* totalFlights and totalHours, in no counter and not in the numerator of
\* onTimePercentage
C17_ExactStatus ==
  (Returned /\ Len(Items) > 0) =>
    /\ \A lit \in StatusLiterals :
         out.statusDistribution[lit] = Cardinality(WithStatus(lit))
    /\ out.totalFlights = Len(Items)
    /\ out.totalHours = ToFixed2(Num(SumCoerced(Items, 1..Len(Items))))
    /\ out.onTimePercentage =
         RoundDiv(Cardinality(WithStatus("completed") \cup WithStatus("active"))
                    * 1000, Len(Items))

\* a call returned for a diverted record and a record whose status differs
\* from 'completed' in its letter case only
C17_Witness ==
  /\ Returned
  /\ Len(Items) = 2
  /\ Items[1].flight_status = Text("diverted")
  /\ Items[2].flight_status = Text("Completed")
  /\ out.totalFlights = 2
  /\ CounterSum = 0
  /\ out.onTimePercentage = 0

\* the number of the first record of the carrier
AircraftFirstSeen(key) ==
  CHOOSE j \in 1..Len(Items) :
    /\ AircraftKey(Items[j]) = key
    /\ \A h \in 1..(j - 1) : AircraftKey(Items[h]) # key

\* the keys of a list are in first-seen order wherever their counts are
\* equal, and a key left out with the count of an entry was seen after it
TiesFirstSeen(list, keyField, countField, Keys, Count(_), FirstSeen(_)) ==
  /\ \A i, h \in 1..Len(list) :
       (i < h /\ list[i][countField] = list[h][countField])
         => FirstSeen(list[i][keyField]) < FirstSeen(list[h][keyField])
  /\ \A i \in 1..Len(list) :
       \A key \in Keys :
         (/\ \A h \in 1..Len(list) : list[h][keyField] # key
          /\ Count(key) = list[i][countField])
           => FirstSeen(list[i][keyField]) < FirstSeen(key)

\* C18: in routeAnalysis, aircraftBreakdown and airlineAnalysis entries of
\* equal count stand in the order in which their keys were first seen, and
\* of the tied keys at the cut at 5 the ones seen first are kept
C18_TiesFirstSeen ==
  (Returned /\ Len(Items) > 0) =>
    /\ TiesFirstSeen(out.routeAnalysis, "route", "frequency",
                     RouteKeys, RouteCount, RouteFirstSeen)
    /\ TiesFirstSeen(out.aircraftBreakdown, "type", "count",
                     AircraftKeys, AircraftCount, AircraftFirstSeen)
    /\ TiesFirstSeen(out.airlineAnalysis, "airline", "flights",
                     AircraftKeys, AircraftCount, AircraftFirstSeen)

\* a call returned for six routes and six carriers of one record each: the
\* lists hold the first five, the sixth is cut off
C18_Witness ==
  /\ Returned
  /\ Len(Items) = 6
  /\ Cardinality(RouteKeys) = 6
  /\ Cardinality(AircraftKeys) = 6
  /\ \A i \in 1..5 :
       /\ out.routeAnalysis[i].route = RouteKey(Items[i])
       /\ out.aircraftBreakdown[i].type = AircraftKey(Items[i])
       /\ out.airlineAnalysis[i].airline = AircraftKey(Items[i])
       /\ out.aircraftBreakdown[i].count = 1

\* C20: airlineAnalysis and aircraftBreakdown have the same length and, at
\* every index, the same carrier and the same number of flights
C20_SameGrouping ==
  Returned =>
    /\ Len(out.airlineAnalysis) = Len(out.aircraftBreakdown)
    /\ \A i \in 1..Len(out.airlineAnalysis) :
         /\ out.airlineAnalysis[i].airline = out.aircraftBreakdown[i].type
         /\ out.airlineAnalysis[i].flights = out.aircraftBreakdown[i].count

\* a call returned with two carriers of equal count in both lists
C20_Witness ==
  /\ Returned
  /\ Len(out.airlineAnalysis) >= 2
  /\ out.airlineAnalysis[1].flights = out.airlineAnalysis[2].flights
  /\ out.airlineAnalysis[1].airline # out.airlineAnalysis[2].airline
  /\ out.aircraftBreakdown[2].type = out.airlineAnalysis[2].airline

\* a code that is absent or empty
Missing(value) == value \in {Null, Undefined, Text("")}

\* the route and the carrier under which the claim groups record j
ExpectedRoute(j) ==
  (IF Missing(Items[j].departure_iata) THEN "N/A"
   ELSE Items[j].departure_iata.s)
    \o "-" \o
  (IF Missing(Items[j].arrival_iata) THEN "N/A" ELSE Items[j].arrival_iata.s)

ExpectedCarrier(j) ==
  IF Missing(Items[j].airline_iata) THEN "Unknown" ELSE Items[j].airline_iata.s

\* every route and carrier has its entry with the number of its records
\* (unless the list is cut at 5), and the first entries are the top ones
GroupedAsExpected ==
  /\ \A key \in {ExpectedRoute(j) : j \in 1..Len(Items)} :
       \/ Len(out.routeAnalysis) = 5
       \/ \E i \in 1..Len(out.routeAnalysis) :
            /\ out.routeAnalysis[i].route = key
            /\ out.routeAnalysis[i].frequency =
                 Cardinality({h \in 1..Len(Items) : ExpectedRoute(h) = key})
  /\ \A key \in {ExpectedCarrier(j) : j \in 1..Len(Items)} :
       \/ Len(out.aircraftBreakdown) = 5
       \/ \E i \in 1..Len(out.aircraftBreakdown) :
            /\ out.aircraftBreakdown[i].type = key
            /\ out.aircraftBreakdown[i].count =
                 Cardinality({h \in 1..Len(Items) : ExpectedCarrier(h) = key})
  /\ out.mostFrequentRoute = out.routeAnalysis[1].route
  /\ out.mostUsedAircraft = out.aircraftBreakdown[1].type

\* C19 as stated: records are grouped under 'N/A' for a missing airport
\* code and under 'Unknown' for a missing carrier code, and mostUsedAircraft
\* of a non-empty input is never 'N/A'
C19_NeverNA ==
  (Returned /\ Len(Items) > 0) =>
    /\ GroupedAsExpected
    /\ out.mostUsedAircraft # "N/A"

\* C19: records are grouped under 'N/A' for a missing airport code and
\* under 'Unknown' for a missing carrier code, and mostUsedAircraft of a
\* non-empty input is 'N/A' only when a record's carrier code is that very
\* string
C19_Placeholders ==
  (Returned /\ Len(Items) > 0) =>
    /\ GroupedAsExpected
    /\ out.mostUsedAircraft \in {ExpectedCarrier(j) : j \in 1..Len(Items)}
    /\ out.mostUsedAircraft = "N/A"
         => \E j \in 1..Len(Items) : Items[j].airline_iata = Text("N/A")

\* a call returned for two records without airport codes and without a
\* carrier code, one absent and one empty, which make the top route and
\* the top carrier
C19_Witness ==
  /\ Returned
  /\ Len(Items) = 2
  /\ Items[1].airline_iata = Undefined
  /\ Items[2].airline_iata = Text("")
  /\ \A j \in 1..2 : Items[j].departure_iata = Null
  /\ \A j \in 1..2 : Items[j].arrival_iata = Text("")
  /\ out.mostFrequentRoute = "N/A-N/A"
  /\ out.mostUsedAircraft = "Unknown"
  /\ out.aircraftBreakdown[1].count = 2

\* the records that are completed or active
OnTime == WithStatus("completed") \cup WithStatus("active")

AllOnTime == Cardinality(OnTime) = Len(Items)

\* (completed + active) / totalFlights * 100 rounded to one decimal, in
\* tenths of a percent; 0 without flights
OnTimeFormula ==
  /\ out.onTimePercentage =
       IF Len(Items) = 0 THEN 0
       ELSE RoundDiv(Cardinality(OnTime) * 1000, Len(Items))
  /\ out.onTimePercentage \in 0..1000

C14_InputUnchanged == [][pc' = "returned" => flights' = flights]_vars

\* a call returned 3.5 hours for a record whose duration is still the
\* string '3.5'
C14_Witness ==
  /\ Returned
  /\ Len(Items) = 1
  /\ Items[1].duration_hours = Str(<<"3", ".", "5">>)
  /\ out.totalHours = Hours8(28)

\* a summary without the reliability values
Strip(summary) ==
  [summary EXCEPT !.airlineAnalysis =
     [i \in 1..Len(@) |-> [airline |-> @[i].airline, flights |-> @[i].flights]]]

SecondReturned == pc = "returned" /\ prev.k = "result"

\* C13 as stated: two calls with the same input return the same summary
\* but for the reliability values, whenever they are made
C13_SameWhenever == SecondReturned => Strip(out) = Strip(prev.out)

\* C13: two calls with the same input return the same summary but for the
\* reliability values and for monthlyTrend, and the same monthlyTrend too
\* when they are made in the same calendar month or the input is empty
C13_SameInSameMonth ==
  SecondReturned =>
    /\ [Strip(out) EXCEPT !.monthlyTrend = <<>>]
         = [Strip(prev.out) EXCEPT !.monthlyTrend = <<>>]
    /\ (prev.at = now \/ Len(Items) = 0)
         => out.monthlyTrend = prev.out.monthlyTrend

\* the second of two calls with three legs of two carriers returned, in the
\* month of the first one and with other reliability values
C13_Witness ==
  /\ SecondReturned
  /\ prev.at = now
  /\ Len(Items) = 3
  /\ Len(out.airlineAnalysis) = 2
  /\ out.airlineAnalysis[1].reliability
       # prev.out.airlineAnalysis[1].reliability
  /\ Strip(out) = Strip(prev.out)

\* a value of type number (a quotient included)
IsNumber(x) == x.k \in {"number", "nan", "ratio"}

SummaryFields ==
  {"totalFlights", "totalHours", "averageFlightTime", "mostFrequentRoute",
   "mostUsedAircraft", "onTimePercentage", "monthlyTrend",
   "aircraftBreakdown", "routeAnalysis", "statusDistribution",
   "timeDistribution", "airlineAnalysis"}

\* the documented shape of a summary
WellShaped(s) ==
  /\ DOMAIN s = SummaryFields
  /\ s.totalFlights \in Nat
  /\ IsNumber(s.totalHours) /\ IsNumber(s.averageFlightTime)
  /\ s.mostFrequentRoute \in STRING /\ s.mostUsedAircraft \in STRING
  /\ s.onTimePercentage \in Nat
  /\ Len(s.monthlyTrend) = 6
  /\ \A i \in 1..Len(s.monthlyTrend) :
       /\ DOMAIN s.monthlyTrend[i] = {"month", "flights", "hours"}
       /\ s.monthlyTrend[i].month \in STRING
       /\ s.monthlyTrend[i].flights \in Nat
       /\ IsNumber(s.monthlyTrend[i].hours)
  /\ Len(s.aircraftBreakdown) <= 5
  /\ \A i \in 1..Len(s.aircraftBreakdown) :
       /\ DOMAIN s.aircraftBreakdown[i] = {"type", "count", "hours", "percentage"}
       /\ s.aircraftBreakdown[i].type \in STRING
       /\ s.aircraftBreakdown[i].count \in Nat
       /\ IsNumber(s.aircraftBreakdown[i].hours)
       /\ s.aircraftBreakdown[i].percentage.k = "double"
  /\ Len(s.routeAnalysis) <= 5
  /\ \A i \in 1..Len(s.routeAnalysis) :
       /\ DOMAIN s.routeAnalysis[i] = {"route", "frequency", "avgDuration"}
       /\ s.routeAnalysis[i].route \in STRING
       /\ s.routeAnalysis[i].frequency \in Nat
       /\ IsNumber(s.routeAnalysis[i].avgDuration)
  /\ DOMAIN s.statusDistribution = StatusLiterals
  /\ \A lit \in StatusLiterals : s.statusDistribution[lit] \in Nat
  /\ DOMAIN s.timeDistribution = {"day", "night", "ifr", "crossCountry"}
  /\ \A f \in DOMAIN s.timeDistribution : IsNumber(s.timeDistribution[f])
  /\ Len(s.airlineAnalysis) <= 5
  /\ \A i \in 1..Len(s.airlineAnalysis) :
       /\ DOMAIN s.airlineAnalysis[i] = {"airline", "flights", "reliability"}
       /\ s.airlineAnalysis[i].airline \in STRING
       /\ s.airlineAnalysis[i].flights \in Nat
       /\ s.airlineAnalysis[i].reliability.k = "double"

\* C15: whatever fields the records of the input lack or carry in a wrong
\* form, the call returns, and what it returns has the twelve fields of a
\* summary in their documented shapes
C15_AlwaysWellShaped ==
  /\ pc \in {"idle", "returned"}
  /\ Returned => WellShaped(out)

\* a call returned for three records of which none has a code, a numeric
\* duration, a date or a known status
C15_Witness ==
  /\ Returned
  /\ Len(Items) = 3
  /\ \A j \in 1..3 :
       /\ Missing(Items[j].departure_iata) /\ Missing(Items[j].airline_iata)
       /\ Coerced(Items[j].duration_hours) = Num(0)
       /\ Items[j].duration_hours.k # "number"
       /\ Items[j].flight_date \in {Null, Undefined, Text("not a date")}
       /\ \A lit \in StatusLiterals : Items[j].flight_status # Text(lit)
  /\ Items[1] # Items[2] /\ Items[2] # Items[3] /\ Items[1] # Items[3]
  /\ out.totalFlights = 3
  /\ out.mostFrequentRoute = "N/A-N/A"

\* the rows a caller may see: all of them for an admin, the caller's own
\* for anyone else
Visible(user) ==
  IF user.role = "admin" THEN 1..Len(table)
  ELSE {i \in 1..Len(table) : table[i].created_by = user.id}

Answered(r) == reqs[r].stage = "done" /\ reqs[r].status = 200

\* C16: the summary sent to a caller who is no admin counts and sums the
\* rows created by the caller and no other row, the summary sent to an
\* admin all rows
C16_OwnRowsOnly ==
  \A r \in Requests :
    Answered(r) =>
      /\ reqs[r].body.totalFlights = Cardinality(Visible(reqs[r].user))
      /\ reqs[r].body.totalHours
           = ToFixed2(Num(SumCoerced(table, Visible(reqs[r].user))))
      /\ \A i \in 1..Len(reqs[r].body.aircraftBreakdown) :
           \E j \in Visible(reqs[r].user) :
             reqs[r].body.aircraftBreakdown[i].type = table[j].airline_iata.s

\* a pilot and an admin were answered while the table held a row of the
\* pilot and a row of another pilot: the pilot's summary counts one flight,
\* the admin's two
C16_Witness ==
  /\ Len(table) = 2
  /\ table[1].created_by = Id(2) /\ table[2].created_by = Id(1)
  /\ Answered("r1") /\ reqs["r1"].user.id = Id(1)
  /\ reqs["r1"].body.totalFlights = 1
  /\ reqs["r1"].body.mostUsedAircraft = "AA"
  /\ Answered("r2") /\ reqs["r2"].user.role = "admin"
  /\ reqs["r2"].body.totalFlights = 2

\* 100.0, and 2^-40, in units of 2^-70
Hundred == BigMul(BigOne, 100)

Tolerance == <<0, 0, 4, 0, 0, 0, 0>>

\* the exact sum of the percentages of the entries i.. of a list
RECURSIVE PercentSumFrom(_, _)
PercentSumFrom(list, i) ==
  IF i > Len(list) THEN BigZero
  ELSE BigAdd(list[i].percentage.x, PercentSumFrom(list, i + 1))

PercentSum == PercentSumFrom(out.aircraftBreakdown, 1)

\* every percentage is count / totalFlights * 100, up to 2^-40, and lies
\* in (0, 100]
PercentOfCount ==
  \A i \in 1..Len(out.aircraftBreakdown) :
    LET p == out.aircraftBreakdown[i].percentage.x
        exact == BigMul(Hundred, AircraftCount(out.aircraftBreakdown[i].type))
        slack == BigMul(Tolerance, Len(Items))
    IN  /\ out.aircraftBreakdown[i].count
             = AircraftCount(out.aircraftBreakdown[i].type)
        /\ BigCmp(BigMul(p, Len(Items)), BigAdd(exact, slack)) <= 0
        /\ BigCmp(BigAdd(BigMul(p, Len(Items)), slack), exact) >= 0
        /\ BigCmp(p, BigZero) > 0
        /\ BigCmp(p, Hundred) <= 0

\* C21 as stated: every percentage is count / totalFlights * 100 in
\* (0, 100], and the percentages listed add up to at most 100, to exactly
\* 100 for at most 5 carriers
C21_SumExactlyHundred ==
  (Returned /\ Len(Items) > 0) =>
    /\ PercentOfCount
    /\ BigCmp(PercentSum, Hundred) <= 0
    /\ Cardinality(AircraftKeys) <= 5 => PercentSum = Hundred

\* C21: every percentage is count / totalFlights * 100 in (0, 100], and
\* the percentages listed add up to at most 100, to 100 for at most 5
\* carriers, both up to the rounding of the quotients (less than 2^-40)
C21_SumAboutHundred ==
  (Returned /\ Len(Items) > 0) =>
    /\ PercentOfCount
    /\ BigCmp(PercentSum, BigAdd(Hundred, Tolerance)) <= 0
    /\ Cardinality(AircraftKeys) <= 5
         => BigCmp(BigAdd(PercentSum, Tolerance), Hundred) >= 0

\* a call returned for five flights of one carrier and one of another: the
\* two percentages add up to more than 100
C21_Witness ==
  /\ Returned
  /\ Len(Items) = 6
  /\ Len(out.aircraftBreakdown) = 2
  /\ out.aircraftBreakdown[1].count = 5
  /\ BigCmp(PercentSum, Hundred) > 0

\* the records of a route
OnRoute(key) == {j \in 1..Len(Items) : RouteKey(Items[j]) = key}

\* x is the quotient of sum ticks by the whole number n
IsQuotient(x, sum, n) ==
  CASE x.k = "number" -> x.v * n = sum
    [] x.k = "ratio" -> x.n * n = sum * x.d
    [] OTHER -> FALSE

\* x is a whole number of hundredths of an hour, and none is nearer to the
\* quotient of sum ticks by n (half a hundredth is 4 ticks)
IsNearestHundredth(x, sum, n) ==
  /\ x.k = "number"
  /\ x.v % 8 = 0
  /\ x.v * n - sum <= 4 * n
  /\ sum - x.v * n <= 4 * n

WholeHoursOf(ticks, num, den) == ((ticks * num) \div (den * Unit)) * Unit

C24_ReliabilityRange ==
  Returned =>
    \A i \in 1..Len(out.airlineAnalysis) :
      LET r == out.airlineAnalysis[i].reliability.x
      IN  /\ BigCmp(r, BigMul(BigOne, 85)) >= 0
          /\ BigCmp(r, Hundred) < 0

\* the summary is one that a call returns when it runs alone on the rows
\* of the user
AloneFor(user, summary) ==
  \E rows \in OrderByDateDesc(table, Visible(user)), seed \in Seeds :
    summary = processFlightAnalytics(Arr(rows), now, seed)

CarriesToken(header) ==
  /\ header.k = "string"
  /\ \E i \in 1..Len(header.chars) :
       /\ header.chars[i] = " "
       /\ \A l \in 1..(i - 1) : header.chars[l] # " "
       /\ i < Len(header.chars)
       /\ header.chars[i + 1] # " "

\* the tokens signed with the secret and in date
ValidTokens == {Str(<<"g">>), Str(<<"h">>)}

\* the middleware is through with the request
Decided(r) == guard[r].stage \in {"answered", "next", "handled"}

\* C26: authenticateToken does exactly one of three things: it answers 401
\* when the header carries no token, it answers 403 when the token fails
\* verification, it sets req.user and calls next() once when the token is
\* valid; the handler of the route runs for a valid token only
C26_ExactlyOne ==
  \A r \in Requests :
    LET g == guard[r]
    IN  /\ g.stage = "verifying" => g.sent = <<>> /\ g.nexts = 0
        /\ Decided(r) =>
             /\ \/ g.stage = "answered" /\ g.sent = <<401>> /\ g.nexts = 0
                   /\ g.user = Undefined /\ ~CarriesToken(g.header)
                \/ g.stage = "answered" /\ g.sent = <<403>> /\ g.nexts = 0
                   /\ g.user = Undefined /\ CarriesToken(g.header)
                   /\ g.token \notin ValidTokens
                \/ g.stage \in {"next", "handled"} /\ g.nexts = 1
                   /\ CarriesToken(g.header) /\ g.token \in ValidTokens
                   /\ g.user = Verify(g.token).user
                   /\ g.user.role \in {"pilot", "admin"}
             /\ g.stage = "next" => g.sent = <<>>
             /\ g.stage = "handled" => g.sent = <<200>>

\* one request without a token got 401, one with an expired token 403, and
\* neither reached the handler
C26_Witness ==
  /\ guard["r1"].stage = "answered" /\ guard["r1"].sent = <<401>>
  /\ guard["r1"].header = Str(Bearer \o <<" ">>)
  /\ guard["r2"].stage = "answered" /\ guard["r2"].sent = <<403>>
  /\ guard["r2"].token = Str(<<"e">>)

\* two requests name the same email or the same username
Clash(r, s) ==
  \/ regs[r].body.email = regs[s].body.email
  \/ regs[r].body.username = regs[s].body.username

Created(r) == regs[r].stage = "done" /\ regs[r].status = 201

\* C27: no two rows of pilots share an email or a username; of two
\* registrations for the same email or username at most one is answered
\* 201 with a token, and whatever else is answered is an error without a
\* token
C27_UniquePilots ==
  /\ \A i, j \in 1..Len(pilots) :
       i # j => /\ pilots[i].email # pilots[j].email
                /\ pilots[i].username # pilots[j].username
  /\ \A r, s \in Requests :
       (r # s /\ Created(r) /\ regs[s].stage # "none" /\ Clash(r, s))
         => ~Created(s)
  /\ \A r \in Requests :
       regs[r].stage = "done" =>
         IF regs[r].status = 201
         THEN /\ regs[r].token # Undefined
              /\ \E i \in 1..Len(pilots) :
                   /\ pilots[i].id = regs[r].token.id
                   /\ pilots[i].email = regs[r].body.email
                   /\ pilots[i].username = regs[r].body.username
         ELSE regs[r].status \in {400, 500} /\ regs[r].token = Undefined

\* two registrations for one email passed the check before either insert:
\* the first insert made the row and was answered 201, the second failed
\* and was answered 500 without a token
C27_Witness ==
  /\ Created("r2")
  /\ regs["r1"].stage = "done" /\ regs["r1"].status = 500
  /\ regs["r1"].message = "Failed to create pilot account"
  /\ regs["r1"].token = Undefined
  /\ regs["r1"].err = Text("ER_DUP_ENTRY")
  /\ regs["r1"].body.email = regs["r2"].body.email
  /\ regs["r1"].body.username # regs["r2"].body.username
  /\ Len(pilots) = 1

\* C28: from the completion of logout() until a login or register call is
\* started, token and pilot are null and the item 'pilot_token' is removed,
\* whatever was in flight when logout was called
C28_StaysSignedOut ==
  (session.stage = "mounted" /\ session.quiet) =>
    /\ session.token = Null
    /\ session.pilot = Null
    /\ session.stored = Null

\* no request of the hook is in flight
AllArrived ==
  \A n \in 1..Len(hook.issued) : hook.issued[n].state # "inFlight"

\* C29: once every answer has arrived, flights holds the result of the
\* request issued last, in whatever order the answers came, and loading and
\* searchLoading are false
C29_LatestWins ==
  (hook.stage = "mounted" /\ hook.issued # <<>> /\ AllArrived) =>
    LET last == hook.issued[Len(hook.issued)]
    IN  /\ last.state = "ok" =>
              hook.flights = DataOf(last.kind, last.flightNumber, last.date)
        /\ hook.loading = FALSE
        /\ hook.searchLoading = FALSE

\* the handling of a request has come to its end
Over(r) == uploads[r].stage \in {"done", "failed"}

\* C30: a request that carries a file gets exactly one response, never
\* two, and its temporary file is gone when the response is sent, on every
\* path: CSV, PDF, unsupported type, failure while reading
C30_OneResponseFileRemoved ==
  \A r \in Requests :
    (uploads[r].stage # "none" /\ uploads[r].file # Null) =>
      /\ Len(uploads[r].sent) <= 1
      /\ uploads[r].sent # <<>> => ~uploads[r].temp
      /\ Over(r) => Len(uploads[r].sent) = 1 /\ ~uploads[r].temp

====
